---- MODULE Spec2Model ----
(***************************************************************************)
(* StudentOrg: role based access control over committees and kanban tasks. *)
(*                                                                         *)
(* The store is the relational schema of the Prisma migration; every route *)
(* handler of the Express back end is one action that reads the store,     *)
(* possibly writes it, and leaves its HTTP answer in `last`.               *)
(* POST /organizations is also modelled in its two database steps, with   *)
(* the requests between the two kept in `inflight`.                        *)
(*                                                                         *)
(* Ids are small integers (0 is an id that was never allocated), users are *)
(* strings.  Of the scalar content fields of a row (name, description,     *)
(* logoUrl / title, description, dueDate) only the first is kept: the      *)
(* handlers treat the others exactly as they treat the first one.          *)
(***************************************************************************)
EXTENDS Integers, Sequences, FiniteSets, TLC

VARIABLES organizations, roles, committees, permissions, userRoles,
          tasks, assignments, comments, users, nextId, last, inflight

store == <<organizations, roles, committees, permissions, userRoles,
           tasks, assignments, comments, users>>
vars == <<organizations, roles, committees, permissions, userRoles,
          tasks, assignments, comments, users, nextId, last, inflight>>

----------------------------------------------------------------------------
(* Enumerations and the values requests are drawn from *)

NONE == "NONE"
MEMBER == "MEMBER"
LEADER == "LEADER"
ADMIN == "ADMIN"
PermissionLevel == {NONE, MEMBER, LEADER}

TODO == "TODO"
IN_PROGRESS == "IN_PROGRESS"
DONE == "DONE"
TaskStatus == {TODO, IN_PROGRESS, DONE}

\* the users table (registration is handled outside these routes) and the callers
Users == {"u1", "u2", "u3"}
Callers == {"u1", "u2"}
\* what a request carries when it carries no user, no id, no value
NoUser == "anonymous"
NoId == 0
Undefined == "undefined"
NoError == ""

\* the rank of a level in the order NONE < MEMBER < LEADER
Rank(level) == CASE level = NONE -> 0 [] level = MEMBER -> 1 [] level = LEADER -> 2

----------------------------------------------------------------------------
(* Queries on the store *)

\* prisma.organization.findMany({ where: { adminUserId: userId } })
OrganizationsOfAdmin(userId) ==
    {o \in DOMAIN organizations : organizations[o].adminUserId = userId}

\* prisma.organization.findFirst({ where: { id, adminUserId: userId } })
IsAdminOf(userId, organizationId) ==
    /\ organizationId \in DOMAIN organizations
    /\ organizations[organizationId].adminUserId = userId

\* prisma.userRole.findMany({ where: { userId } })
UserRolesOf(userId) == {ur \in userRoles : ur.userId = userId}

\* include: { role: { include: { permissions: { where: { committeeId } } } } }
RolePermissions(roleId, committeeId) ==
    {p \in permissions : p.roleId = roleId /\ p.committeeId = committeeId}

\* include: { role: { include: { permissions: true } } }
AllRolePermissions(roleId) == {p \in permissions : p.roleId = roleId}

----------------------------------------------------------------------------
(* middleware/permissions: checkCommitteePermission and checkIsAdmin *)

RECURSIVE ScanPermissions(_, _)
\* the inner loop over userRole.role.permissions; LEADER breaks out of it
ScanPermissions(rows, highest) ==
    IF rows = {} THEN highest
    ELSE LET permission == CHOOSE p \in rows : TRUE
         IN  IF permission.permissionLevel = LEADER THEN LEADER
             ELSE ScanPermissions(rows \ {permission},
                      IF permission.permissionLevel = MEMBER /\ highest = NONE
                      THEN MEMBER ELSE highest)

RECURSIVE ScanUserRoles_FirstRoleWins(_, _, _)
\* a fault: the scan stops at the first role that has a row for the committee
ScanUserRoles_FirstRoleWins(rows, committeeId, highest) ==
    IF rows = {} THEN highest
    ELSE LET userRole == CHOOSE ur \in rows : TRUE
             h == ScanPermissions(RolePermissions(userRole.roleId, committeeId), highest)
         IN  IF h # NONE THEN h
             ELSE ScanUserRoles_FirstRoleWins(rows \ {userRole}, committeeId, h)

RECURSIVE ScanUserRoles(_, _, _)
\* the outer loop over userRoles; it stops once the level is LEADER
ScanUserRoles(rows, committeeId, highest) ==
    IF rows = {} THEN highest
    ELSE LET userRole == CHOOSE ur \in rows : TRUE
             h == ScanPermissions(RolePermissions(userRole.roleId, committeeId), highest)
         IN  IF h = LEADER THEN LEADER
             ELSE ScanUserRoles(rows \ {userRole}, committeeId, h)

\* a fault: the permissions of the roles are not filtered by the committee
HighestPermission_AnyCommittee(userId, committeeId) ==
    LET levels == {q.permissionLevel :
                      q \in {p \in permissions :
                                \E ur \in UserRolesOf(userId) : ur.roleId = p.roleId}}
    IN  IF LEADER \in levels THEN LEADER
        ELSE IF MEMBER \in levels THEN MEMBER ELSE NONE

\* "Find the highest permission level"
HighestPermission(userId, committeeId) ==
    ScanUserRoles(UserRolesOf(userId), committeeId, NONE)

\* a fault: a MEMBER requirement that only the level MEMBER satisfies
InsufficientPermission_MemberOnly(requiredLevel, highestPermission) ==
    IF requiredLevel = LEADER THEN highestPermission # LEADER
    ELSE IF requiredLevel = MEMBER THEN highestPermission # MEMBER
         ELSE FALSE

\* "Check if user has required permission level": TRUE when the guard answers 403
InsufficientPermission(requiredLevel, highestPermission) ==
    IF requiredLevel = LEADER THEN highestPermission # LEADER
    ELSE IF requiredLevel = MEMBER
         THEN highestPermission # MEMBER /\ highestPermission # LEADER
         ELSE FALSE

\* a fault: the guard computes the level but never compares it with the requirement
CheckCommitteePermission_NoComparison(requiredLevel, userId, committeeId) ==
    IF userId = NoUser
    THEN [code |-> 401, userPermission |-> Undefined]
    ELSE IF committeeId = NoId
    THEN [code |-> 400, userPermission |-> Undefined]
    ELSE [code |-> 0, userPermission |-> HighestPermission(userId, committeeId)]

\* The guard's outcome: code 0 stands for next(), the handler runs.
CheckCommitteePermission(requiredLevel, userId, committeeId) ==
    IF userId = NoUser
    THEN [code |-> 401, userPermission |-> Undefined]
    ELSE IF committeeId = NoId
    THEN [code |-> 400, userPermission |-> Undefined]
    ELSE IF OrganizationsOfAdmin(userId) # {} /\ requiredLevel = ADMIN
    THEN [code |-> 0, userPermission |-> Undefined]
    ELSE LET highestPermission == HighestPermission(userId, committeeId)
         IN  IF InsufficientPermission(requiredLevel, highestPermission)
             THEN [code |-> 403, userPermission |-> highestPermission]
             ELSE [code |-> 0, userPermission |-> highestPermission]

\* a fault: a role with a LEADER row passes for organization admin
CheckIsAdmin_LeaderPasses(userId) ==
    IF userId = NoUser THEN 401
    ELSE IF /\ OrganizationsOfAdmin(userId) = {}
            /\ ~\E ur \in UserRolesOf(userId) :
                   \E p \in AllRolePermissions(ur.roleId) : p.permissionLevel = LEADER
    THEN 403
    ELSE 0

\* The admin guard's outcome: code 0 stands for next().
CheckIsAdmin(userId) ==
    IF userId = NoUser THEN 401
    ELSE IF OrganizationsOfAdmin(userId) = {} THEN 403
    ELSE 0

----------------------------------------------------------------------------
(* The answer of the last request *)

\* op: the route; required: the level its guard was built with; committeeId, taskId:
\* the committee and the task the request is about; code: the HTTP status;
\* userPermission: the level the guard left in req.userPermission or the route
\* returned; committees: the (committee, userPermission) pairs GET /committees returned;
\* error: the message of a 400; roleId, permissions: the body of POST /roles/permissions;
\* tasks: the tasks GET /tasks/committee/:committeeId returned, in the order returned.
Response(op, userId, committeeId, taskId, code, userPermission, list) ==
    [op |-> op, user |-> userId, required |-> Undefined, committeeId |-> committeeId,
     taskId |-> taskId, code |-> code, userPermission |-> userPermission,
     committees |-> list, error |-> NoError, roleId |-> NoId, permissions |-> <<>>,
     tasks |-> <<>>]

Guarded(response, requiredLevel) == [response EXCEPT !.required = requiredLevel]

NoRequest == Response("none", NoUser, NoId, NoId, 0, Undefined, {})

----------------------------------------------------------------------------
(* routes/committees: the two read routes *)

RECURSIVE ScanUserRolesList(_, _, _)
\* GET /committees: per committee, the first row of each role for it; LEADER stops the scan
ScanUserRolesList(rows, committeeId, highest) ==
    IF rows = {} THEN highest
    ELSE LET userRole == CHOOSE ur \in rows : TRUE
             found == {p \in AllRolePermissions(userRole.roleId) : p.committeeId = committeeId}
             rest == rows \ {userRole}
         IN  IF found = {} THEN ScanUserRolesList(rest, committeeId, highest)
             ELSE LET permission == CHOOSE p \in found : TRUE
                  IN  IF permission.permissionLevel = LEADER THEN LEADER
                      ELSE ScanUserRolesList(rest, committeeId,
                               IF permission.permissionLevel = MEMBER /\ highest = NONE
                               THEN MEMBER ELSE highest)

\* a fault: the committees with userPermission NONE are not filtered out
AccessibleCommittees_Unfiltered(userId, organizationId) ==
    {<<c, ScanUserRolesList(UserRolesOf(userId), c, NONE)>> :
        c \in {x \in DOMAIN committees : committees[x].organizationId = organizationId}}

\* GET /committees: what a non-admin caller is shown of the organization's committees
AccessibleCommittees(userId, organizationId) ==
    LET withPermissions ==
            {<<c, ScanUserRolesList(UserRolesOf(userId), c, NONE)>> :
                c \in {x \in DOMAIN committees : committees[x].organizationId = organizationId}}
    IN  {cp \in withPermissions : cp[2] # NONE}

\* GET /committees: what the admin is shown
AdminCommittees(organizationId) ==
    {<<c, LEADER>> : c \in {x \in DOMAIN committees : committees[x].organizationId = organizationId}}

\* GET /committees
GetCommittees(userId) ==
    /\ \/ \E organization \in OrganizationsOfAdmin(userId) :
              last' = Response("getCommittees", userId, NoId, NoId, 200, Undefined,
                               AdminCommittees(organization))
       \/ /\ OrganizationsOfAdmin(userId) = {}
          /\ \E userRole \in UserRolesOf(userId) :
                 last' = Response("getCommittees", userId, NoId, NoId, 200, Undefined,
                                  AccessibleCommittees(userId, roles[userRole.roleId].organizationId))
       \/ /\ OrganizationsOfAdmin(userId) = {}
          /\ UserRolesOf(userId) = {}
          /\ last' = Response("getCommittees", userId, NoId, NoId, 404, Undefined, {})
    /\ UNCHANGED <<inflight, store, nextId>>

RECURSIVE ScanUserRolesGet(_, _, _)
\* GET /committees/:id: the same two loops as the guard's
ScanUserRolesGet(rows, committeeId, userPermission) ==
    IF rows = {} THEN userPermission
    ELSE LET userRole == CHOOSE ur \in rows : TRUE
             h == ScanPermissions(RolePermissions(userRole.roleId, committeeId), userPermission)
         IN  IF h = LEADER THEN LEADER
             ELSE ScanUserRolesGet(rows \ {userRole}, committeeId, h)

\* GET /committees/:id: the level the route computes for an existing committee
CommitteeUserPermission(userId, id) ==
    IF IsAdminOf(userId, committees[id].organizationId) THEN LEADER
    ELSE ScanUserRolesGet(UserRolesOf(userId), id, NONE)

\* GET /committees/:id
GetCommittee(userId, id) ==
    /\ last' = IF id \notin DOMAIN committees
               THEN Response("getCommittee", userId, id, NoId, 404, Undefined, {})
               ELSE LET userPermission == CommitteeUserPermission(userId, id)
                    IN  IF userPermission = NONE
                        THEN Response("getCommittee", userId, id, NoId, 403, Undefined, {})
                        ELSE Response("getCommittee", userId, id, NoId, 200, userPermission, {})
    /\ UNCHANGED <<inflight, store, nextId>>

----------------------------------------------------------------------------
(* routes/tasks: the read routes *)

\* orderBy status asc: the column is TEXT, so the statuses sort as strings
StatusOrder(status) ==
    CASE status = DONE -> 1
      [] status = IN_PROGRESS -> 2
      [] status = TODO -> 3

\* a fault: the listing leaves the DONE column out
TaskListings_WithoutDone(committeeId) ==
    LET ids == {t \in DOMAIN tasks :
                   tasks[t].committeeId = committeeId /\ tasks[t].status # DONE}
        Ordered(order) ==
            \A i, j \in DOMAIN order :
                i < j => \/ StatusOrder(tasks[order[i]].status) < StatusOrder(tasks[order[j]].status)
                         \/ /\ tasks[order[i]].status = tasks[order[j]].status
                            /\ tasks[order[i]].position <= tasks[order[j]].position
    IN  {[i \in DOMAIN order |-> [id |-> order[i], status |-> tasks[order[i]].status,
                                  position |-> tasks[order[i]].position]] :
            order \in {o \in [1..Cardinality(ids) -> ids] :
                          /\ \A i, j \in DOMAIN o : o[i] = o[j] => i = j
                          /\ Ordered(o)}}

\* prisma.task.findMany where committeeId, orderBy status asc, position asc: the
\* results the query can give (the order of rows equal in both keys is the database's)
TaskListings(committeeId) ==
    LET ids == {t \in DOMAIN tasks : tasks[t].committeeId = committeeId}
        Ordered(order) ==
            \A i, j \in DOMAIN order :
                i < j => \/ StatusOrder(tasks[order[i]].status) < StatusOrder(tasks[order[j]].status)
                         \/ /\ tasks[order[i]].status = tasks[order[j]].status
                            /\ tasks[order[i]].position <= tasks[order[j]].position
    IN  {[i \in DOMAIN order |-> [id |-> order[i], status |-> tasks[order[i]].status,
                                  position |-> tasks[order[i]].position]] :
            order \in {o \in [1..Cardinality(ids) -> ids] :
                          /\ \A i, j \in DOMAIN o : o[i] = o[j] => i = j
                          /\ Ordered(o)}}

\* GET /tasks/committee/:committeeId, behind checkCommitteePermission(MEMBER)
GetCommitteeTasks(userId, committeeId) ==
    /\ LET guard == CheckCommitteePermission(MEMBER, userId, committeeId)
           answer(code) == Guarded(Response("getCommitteeTasks", userId, committeeId, NoId,
                                            code, guard.userPermission, {}), MEMBER)
       IN  IF guard.code # 0
           THEN last' = answer(guard.code)
           ELSE \E listing \in TaskListings(committeeId) :
                    last' = [answer(200) EXCEPT !.tasks = listing]
    /\ UNCHANGED <<inflight, store, nextId>>

\* GET /tasks/:id: "Check user has access to this committee"
HasAccessGetTask(userId, task) ==
    \/ IsAdminOf(userId, committees[task.committeeId].organizationId)
    \/ \E ur \in UserRolesOf(userId) :
           \E p \in RolePermissions(ur.roleId, task.committeeId) : p.permissionLevel # NONE

\* GET /tasks/:id
GetTask(userId, id) ==
    /\ last' = IF id \notin DOMAIN tasks
               THEN Response("getTask", userId, NoId, id, 404, Undefined, {})
               ELSE IF ~HasAccessGetTask(userId, tasks[id])
               THEN Response("getTask", userId, tasks[id].committeeId, id, 403, Undefined, {})
               ELSE Response("getTask", userId, tasks[id].committeeId, id, 200, Undefined, {})
    /\ UNCHANGED <<inflight, store, nextId>>

----------------------------------------------------------------------------
(* routes/tasks: the write routes *)

\* the elements of a list
Range(seq) == {seq[i] : i \in DOMAIN seq}

\* an optional field of a request body: None when the body omits it, Some(v) otherwise
None == {}
Some(v) == {v}
Value(field) == CHOOSE v \in field : TRUE

\* the rows a nested create / createMany of assignees inserts, and whether the
\* foreign key to users and the unique index (task_id, user_id) accept them
AssignmentRows(taskId, assigneeIds) ==
    {[taskId |-> taskId, userId |-> a] : a \in Range(assigneeIds)}
AssigneesAccepted(assigneeIds) ==
    /\ Range(assigneeIds) \subseteq Users
    /\ Cardinality(Range(assigneeIds)) = Len(assigneeIds)

\* "Get highest position in the TODO column": position of the new task
NextPosition(committeeId) ==
    LET todo == {t \in DOMAIN tasks :
                    tasks[t].committeeId = committeeId /\ tasks[t].status = TODO}
    IN  IF todo = {} THEN 0
        ELSE (CHOOSE p \in {tasks[t].position : t \in todo} :
                  \A t \in todo : tasks[t].position <= p) + 1

\* POST /tasks, behind checkCommitteePermission(LEADER)
\* body: [valid, title, committeeId, assigneeIds], assigneeIds optional
CreateTask(userId, body) ==
    LET guard == CheckCommitteePermission(LEADER, userId, body.committeeId)
        answer(code) == Guarded(Response("createTask", userId, body.committeeId, NoId,
                                         code, guard.userPermission, {}), LEADER)
        id == nextId.task
    IN  IF guard.code # 0
        THEN /\ last' = answer(guard.code)
             /\ UNCHANGED <<inflight, store, nextId>>
        ELSE IF ~body.valid
        THEN /\ last' = answer(400)
             /\ UNCHANGED <<inflight, store, nextId>>
        ELSE IF \/ body.committeeId \notin DOMAIN committees
                \/ body.assigneeIds # None /\ ~AssigneesAccepted(Value(body.assigneeIds))
        THEN /\ last' = answer(500)
             /\ UNCHANGED <<inflight, store, nextId>>
        ELSE /\ tasks' = tasks @@ (id :> [committeeId |-> body.committeeId,
                                           status |-> TODO,
                                           position |-> NextPosition(body.committeeId),
                                           createdById |-> userId,
                                           title |-> body.title])
             /\ assignments' = IF body.assigneeIds = None THEN assignments
                               ELSE assignments \cup AssignmentRows(id, Value(body.assigneeIds))
             /\ nextId' = [nextId EXCEPT !.task = id + 1]
             /\ last' = [answer(201) EXCEPT !.taskId = id]
             /\ UNCHANGED <<inflight, organizations, roles, committees, permissions, userRoles,
                            comments, users>>

\* a fault: the check forgets the organization admin
IsLeaderUpdate_RolesOnly(userId, existingTask) ==
    \E ur \in UserRolesOf(userId) :
        \E p \in RolePermissions(ur.roleId, existingTask.committeeId) :
            p.permissionLevel = LEADER

\* PUT /tasks/:id: "Check if user is leader"
IsLeaderUpdate(userId, existingTask) ==
    \/ IsAdminOf(userId, committees[existingTask.committeeId].organizationId)
    \/ \E ur \in UserRolesOf(userId) :
           \E p \in RolePermissions(ur.roleId, existingTask.committeeId) :
               p.permissionLevel = LEADER

\* prisma.task.update: the fields the body carries replace the task's
UpdatedTask(task, data) ==
    [task EXCEPT !.title = IF data.title = None THEN @ ELSE Value(data.title),
                 !.status = IF data.status = None THEN @ ELSE Value(data.status),
                 !.position = IF data.position = None THEN @ ELSE Value(data.position)]

\* a fault: the assignees are deleted before the leader check
UpdateTask_DeleteFirst(userId, id, data) ==
    LET answer(code) == Response("updateTask", userId,
                                 IF id \in DOMAIN tasks THEN tasks[id].committeeId ELSE NoId,
                                 id, code, Undefined, {})
    IN  /\ assignments' = {a \in assignments : a.taskId # id}
        /\ last' = IF ~data.valid THEN answer(400)
                   ELSE IF id \notin DOMAIN tasks THEN answer(404)
                   ELSE IF ~IsLeaderUpdate(userId, tasks[id]) THEN answer(403)
                   ELSE answer(200)
        /\ UNCHANGED <<inflight, organizations, roles, committees, permissions, userRoles, tasks,
                       comments, users, nextId>>

\* PUT /tasks/:id
\* data: [valid, title, status, position, assigneeIds], all but valid optional
UpdateTask(userId, id, data) ==
    LET answer(code) == Response("updateTask", userId,
                                 IF id \in DOMAIN tasks THEN tasks[id].committeeId ELSE NoId,
                                 id, code, Undefined, {})
    IN  IF ~data.valid
        THEN /\ last' = answer(400)
             /\ UNCHANGED <<inflight, store, nextId>>
        ELSE IF id \notin DOMAIN tasks
        THEN /\ last' = answer(404)
             /\ UNCHANGED <<inflight, store, nextId>>
        ELSE IF ~IsLeaderUpdate(userId, tasks[id])
        THEN /\ last' = answer(403)
             /\ UNCHANGED <<inflight, store, nextId>>
        ELSE /\ tasks' = [tasks EXCEPT ![id] = UpdatedTask(@, data)]
             /\ IF data.assigneeIds = None
                THEN /\ assignments' = assignments
                     /\ last' = answer(200)
                ELSE LET removed == {a \in assignments : a.taskId # id}
                         assigneeIds == Value(data.assigneeIds)
                     IN  IF assigneeIds = <<>>
                         THEN /\ assignments' = removed
                              /\ last' = answer(200)
                         ELSE IF AssigneesAccepted(assigneeIds)
                         THEN /\ assignments' = removed \cup AssignmentRows(id, assigneeIds)
                              /\ last' = answer(200)
                         ELSE /\ assignments' = removed
                              /\ last' = answer(500)
             /\ UNCHANGED <<inflight, organizations, roles, committees, permissions, userRoles,
                            comments, users, nextId>>

\* a fault: MEMBER rows do not count
HasAccessStatus_LeaderOnly(userId, existingTask) ==
    \/ IsAdminOf(userId, committees[existingTask.committeeId].organizationId)
    \/ \E ur \in UserRolesOf(userId) :
           \E p \in RolePermissions(ur.roleId, existingTask.committeeId) :
               p.permissionLevel = LEADER

\* PATCH /tasks/:id/status: "Check if user has member or leader access"
HasAccessStatus(userId, existingTask) ==
    \/ IsAdminOf(userId, committees[existingTask.committeeId].organizationId)
    \/ \E ur \in UserRolesOf(userId) :
           \E p \in RolePermissions(ur.roleId, existingTask.committeeId) :
               p.permissionLevel # NONE

\* a fault: the tasks of the destination column at or after the new position move
\* one place down
UpdateTaskStatus_Rebalancing(userId, id, body) ==
    LET answer(code) == Response("updateTaskStatus", userId,
                                 IF id \in DOMAIN tasks THEN tasks[id].committeeId ELSE NoId,
                                 id, code, Undefined, {})
    IN  IF ~body.valid
        THEN /\ last' = answer(400)
             /\ UNCHANGED <<inflight, store, nextId>>
        ELSE IF id \notin DOMAIN tasks
        THEN /\ last' = answer(404)
             /\ UNCHANGED <<inflight, store, nextId>>
        ELSE IF ~HasAccessStatus(userId, tasks[id])
        THEN /\ last' = answer(403)
             /\ UNCHANGED <<inflight, store, nextId>>
        ELSE LET status == Value(body.status)
                 position == IF body.position = None THEN tasks[id].position
                             ELSE Value(body.position)
             IN  /\ tasks' = [t \in DOMAIN tasks |->
                                IF t = id
                                THEN [tasks[t] EXCEPT !.status = status, !.position = position]
                                ELSE IF /\ tasks[t].committeeId = tasks[id].committeeId
                                        /\ tasks[t].status = status
                                        /\ tasks[t].position >= position
                                THEN [tasks[t] EXCEPT !.position = @ + 1]
                                ELSE tasks[t]]
                 /\ last' = answer(200)
                 /\ UNCHANGED <<inflight, organizations, roles, committees, permissions,
                                userRoles, assignments, comments, users, nextId>>

\* PATCH /tasks/:id/status
\* body: [valid, status, position], position optional
UpdateTaskStatus(userId, id, body) ==
    LET answer(code) == Response("updateTaskStatus", userId,
                                 IF id \in DOMAIN tasks THEN tasks[id].committeeId ELSE NoId,
                                 id, code, Undefined, {})
    IN  IF ~body.valid
        THEN /\ last' = answer(400)
             /\ UNCHANGED <<inflight, store, nextId>>
        ELSE IF id \notin DOMAIN tasks
        THEN /\ last' = answer(404)
             /\ UNCHANGED <<inflight, store, nextId>>
        ELSE IF ~HasAccessStatus(userId, tasks[id])
        THEN /\ last' = answer(403)
             /\ UNCHANGED <<inflight, store, nextId>>
        ELSE /\ tasks' = [tasks EXCEPT ![id].status = Value(body.status),
                                       ![id].position = IF body.position = None
                                                        THEN @ ELSE Value(body.position)]
             /\ last' = answer(200)
             /\ UNCHANGED <<inflight, organizations, roles, committees, permissions, userRoles,
                            assignments, comments, users, nextId>>

\* a fault: any row other than NONE is taken for LEADER
IsLeaderDelete_AnyAccess(userId, existingTask) ==
    \/ IsAdminOf(userId, committees[existingTask.committeeId].organizationId)
    \/ \E ur \in UserRolesOf(userId) :
           \E p \in RolePermissions(ur.roleId, existingTask.committeeId) :
               p.permissionLevel # NONE

\* DELETE /tasks/:id: "Check if user is leader"
IsLeaderDelete(userId, existingTask) ==
    \/ IsAdminOf(userId, committees[existingTask.committeeId].organizationId)
    \/ \E ur \in UserRolesOf(userId) :
           \E p \in RolePermissions(ur.roleId, existingTask.committeeId) :
               p.permissionLevel = LEADER

\* a fault: the comments of a deleted task stay
WithoutCommentsOf_Kept(gone) == comments

\* the store without the given tasks: ON DELETE CASCADE of task_assignments and comments
WithoutTasks(gone) == [t \in DOMAIN tasks \ gone |-> tasks[t]]
WithoutAssignmentsOf(gone) == {a \in assignments : a.taskId \notin gone}
WithoutCommentsOf(gone) == {c \in comments : c.taskId \notin gone}

\* DELETE /tasks/:id
DeleteTask(userId, id) ==
    LET answer(code) == Response("deleteTask", userId,
                                 IF id \in DOMAIN tasks THEN tasks[id].committeeId ELSE NoId,
                                 id, code, Undefined, {})
    IN  IF id \notin DOMAIN tasks
        THEN /\ last' = answer(404)
             /\ UNCHANGED <<inflight, store, nextId>>
        ELSE IF ~IsLeaderDelete(userId, tasks[id])
        THEN /\ last' = answer(403)
             /\ UNCHANGED <<inflight, store, nextId>>
        ELSE /\ tasks' = WithoutTasks({id})
             /\ assignments' = WithoutAssignmentsOf({id})
             /\ comments' = WithoutCommentsOf({id})
             /\ last' = answer(200)
             /\ UNCHANGED <<inflight, organizations, roles, committees, permissions, userRoles,
                            users, nextId>>

\* a fault: only LEADER rows give access
HasAccessComment_LeaderOnly(userId, existingTask) ==
    \/ IsAdminOf(userId, committees[existingTask.committeeId].organizationId)
    \/ \E ur \in UserRolesOf(userId) :
           \E p \in RolePermissions(ur.roleId, existingTask.committeeId) :
               p.permissionLevel = LEADER

\* POST /tasks/:id/comments: "Check if user has member or leader access"
HasAccessComment(userId, existingTask) ==
    \/ IsAdminOf(userId, committees[existingTask.committeeId].organizationId)
    \/ \E ur \in UserRolesOf(userId) :
           \E p \in RolePermissions(ur.roleId, existingTask.committeeId) :
               p.permissionLevel # NONE

\* POST /tasks/:id/comments; valid: the body carries a non-empty content
AddComment(userId, id, valid) ==
    LET answer(code) == Response("addComment", userId,
                                 IF id \in DOMAIN tasks THEN tasks[id].committeeId ELSE NoId,
                                 id, code, Undefined, {})
    IN  IF ~valid
        THEN /\ last' = answer(400)
             /\ UNCHANGED <<inflight, store, nextId>>
        ELSE IF id \notin DOMAIN tasks
        THEN /\ last' = answer(404)
             /\ UNCHANGED <<inflight, store, nextId>>
        ELSE IF ~HasAccessComment(userId, tasks[id])
        THEN /\ last' = answer(403)
             /\ UNCHANGED <<inflight, store, nextId>>
        ELSE /\ comments' = comments \cup
                     {[id |-> nextId.comment, taskId |-> id, userId |-> userId]}
             /\ nextId' = [nextId EXCEPT !.comment = @ + 1]
             /\ last' = answer(201)
             /\ UNCHANGED <<inflight, organizations, roles, committees, permissions, userRoles,
                            tasks, assignments, users>>

----------------------------------------------------------------------------
(* routes/organizations *)

ValidationError == "validation"
OrganizationExists == "Organization already exists for this user"

\* a fault: the check for an organization of the caller is missing
ExistingOrg_Skipped(userId) == FALSE

\* "Check if user already has an organization"
ExistingOrg(userId) == OrganizationsOfAdmin(userId) # {}

\* POST /organizations as the server runs it: each connection is idle or holds a
\* request that has passed the check for an organization of the caller and has not
\* yet inserted
MaxInFlight == 2
Idle == [userId |-> NoUser, name |-> None]
NoneInFlight == [connection \in 1..MaxInFlight |-> Idle]

\* the handler up to the await of prisma.organization.create
CheckOrganization(connection, userId, data) ==
    LET answer(code) == Response("createOrganization", userId, NoId, NoId, code, Undefined, {})
    IN  /\ inflight[connection] = Idle
        /\ IF ~data.valid
           THEN /\ last' = [answer(400) EXCEPT !.error = ValidationError]
                /\ UNCHANGED <<inflight, store, nextId>>
           ELSE IF ExistingOrg(userId)
           THEN /\ last' = [answer(400) EXCEPT !.error = OrganizationExists]
                /\ UNCHANGED <<inflight, store, nextId>>
           ELSE /\ inflight' = [inflight EXCEPT
                        ![connection] = [userId |-> userId, name |-> data.name]]
                /\ UNCHANGED <<store, nextId, last>>

\* prisma.organization.create of a request in flight, and its answer
InsertOrganization(connection) ==
    LET request == inflight[connection]
        answer(code) == Response("createOrganization", request.userId, NoId, NoId, code,
                                 Undefined, {})
        id == nextId.organization
    IN  /\ request # Idle
        /\ organizations' = organizations @@
                (id :> [adminUserId |-> request.userId, name |-> Value(request.name)])
        /\ nextId' = [nextId EXCEPT !.organization = id + 1]
        /\ last' = answer(201)
        /\ inflight' = [inflight EXCEPT ![connection] = Idle]
        /\ UNCHANGED <<roles, committees, permissions, userRoles, tasks, assignments,
                       comments, users>>

\* POST /organizations with no other request between its two steps
\* data: [valid, name]
CreateOrganization(userId, data) ==
    LET answer(code) == Response("createOrganization", userId, NoId, NoId, code, Undefined, {})
        id == nextId.organization
    IN  IF ~data.valid
        THEN /\ last' = [answer(400) EXCEPT !.error = ValidationError]
             /\ UNCHANGED <<inflight, store, nextId>>
        ELSE IF ExistingOrg(userId)
        THEN /\ last' = [answer(400) EXCEPT !.error = OrganizationExists]
             /\ UNCHANGED <<inflight, store, nextId>>
        ELSE /\ organizations' = organizations @@
                     (id :> [adminUserId |-> userId, name |-> Value(data.name)])
             /\ nextId' = [nextId EXCEPT !.organization = id + 1]
             /\ last' = answer(201)
             /\ UNCHANGED <<inflight, roles, committees, permissions, userRoles, tasks, assignments,
                            comments, users>>

\* PUT /organizations/:id, behind checkIsAdmin; data: [valid, name], name optional
UpdateOrganization(userId, id, data) ==
    LET guard == CheckIsAdmin(userId)
        answer(code) == Response("updateOrganization", userId, NoId, NoId, code, Undefined, {})
    IN  IF guard # 0
        THEN /\ last' = answer(guard)
             /\ UNCHANGED <<inflight, store, nextId>>
        ELSE IF ~data.valid
        THEN /\ last' = [answer(400) EXCEPT !.error = ValidationError]
             /\ UNCHANGED <<inflight, store, nextId>>
        ELSE IF id \notin DOMAIN organizations
        THEN /\ last' = answer(500)
             /\ UNCHANGED <<inflight, store, nextId>>
        ELSE /\ organizations' = [organizations EXCEPT
                     ![id].name = IF data.name = None THEN @ ELSE Value(data.name)]
             /\ last' = answer(200)
             /\ UNCHANGED <<inflight, roles, committees, permissions, userRoles, tasks, assignments,
                            comments, users, nextId>>

----------------------------------------------------------------------------
(* routes/roles *)

\* the unique index roles(organization_id, name), for a row other than except
RoleNameTaken(organizationId, name, except) ==
    \E r \in DOMAIN roles \ {except} :
        roles[r].organizationId = organizationId /\ roles[r].name = name

\* POST /roles, behind checkIsAdmin; data: [valid, name, organizationId]
CreateRole(userId, data) ==
    LET guard == CheckIsAdmin(userId)
        answer(code) == Response("createRole", userId, NoId, NoId, code, Undefined, {})
        id == nextId.role
    IN  IF guard # 0
        THEN /\ last' = answer(guard)
             /\ UNCHANGED <<inflight, store, nextId>>
        ELSE IF ~data.valid
        THEN /\ last' = [answer(400) EXCEPT !.error = ValidationError]
             /\ UNCHANGED <<inflight, store, nextId>>
        ELSE IF \/ data.organizationId \notin DOMAIN organizations
                \/ RoleNameTaken(data.organizationId, Value(data.name), NoId)
        THEN /\ last' = answer(500)
             /\ UNCHANGED <<inflight, store, nextId>>
        ELSE /\ roles' = roles @@ (id :> [organizationId |-> data.organizationId,
                                          name |-> Value(data.name)])
             /\ nextId' = [nextId EXCEPT !.role = id + 1]
             /\ last' = [answer(201) EXCEPT !.roleId = id]
             /\ UNCHANGED <<inflight, organizations, committees, permissions, userRoles, tasks,
                            assignments, comments, users>>

\* PUT /roles/:id, behind checkIsAdmin; data: [valid, name], name optional
UpdateRole(userId, id, data) ==
    LET guard == CheckIsAdmin(userId)
        answer(code) == [Response("updateRole", userId, NoId, NoId, code, Undefined, {})
                            EXCEPT !.roleId = id]
    IN  IF guard # 0
        THEN /\ last' = answer(guard)
             /\ UNCHANGED <<inflight, store, nextId>>
        ELSE IF ~data.valid
        THEN /\ last' = [answer(400) EXCEPT !.error = ValidationError]
             /\ UNCHANGED <<inflight, store, nextId>>
        ELSE IF \/ id \notin DOMAIN roles
                \/ /\ data.name # None
                   /\ RoleNameTaken(roles[id].organizationId, Value(data.name), id)
        THEN /\ last' = answer(500)
             /\ UNCHANGED <<inflight, store, nextId>>
        ELSE /\ roles' = [roles EXCEPT
                     ![id].name = IF data.name = None THEN @ ELSE Value(data.name)]
             /\ last' = answer(200)
             /\ UNCHANGED <<inflight, organizations, committees, permissions, userRoles, tasks,
                            assignments, comments, users, nextId>>

\* DELETE /roles/:id, behind checkIsAdmin; ON DELETE CASCADE of user_roles and
\* role_committee_permissions
DeleteRole(userId, id) ==
    LET guard == CheckIsAdmin(userId)
        answer(code) == [Response("deleteRole", userId, NoId, NoId, code, Undefined, {})
                            EXCEPT !.roleId = id]
    IN  IF guard # 0
        THEN /\ last' = answer(guard)
             /\ UNCHANGED <<inflight, store, nextId>>
        ELSE IF id \notin DOMAIN roles
        THEN /\ last' = answer(500)
             /\ UNCHANGED <<inflight, store, nextId>>
        ELSE /\ roles' = [r \in DOMAIN roles \ {id} |-> roles[r]]
             /\ userRoles' = {ur \in userRoles : ur.roleId # id}
             /\ permissions' = {q \in permissions : q.roleId # id}
             /\ last' = answer(200)
             /\ UNCHANGED <<inflight, organizations, committees, tasks, assignments, comments,
                            users, nextId>>

\* POST /roles/assign, behind checkIsAdmin; body: [valid, userId, roleId]
AssignRole(userId, body) ==
    LET guard == CheckIsAdmin(userId)
        answer(code) == [Response("assignRole", userId, NoId, NoId, code, Undefined, {})
                            EXCEPT !.roleId = body.roleId]
        userRole == [userId |-> body.userId, roleId |-> body.roleId]
    IN  IF guard # 0
        THEN /\ last' = answer(guard)
             /\ UNCHANGED <<inflight, store, nextId>>
        ELSE IF ~body.valid
        THEN /\ last' = [answer(400) EXCEPT !.error = ValidationError]
             /\ UNCHANGED <<inflight, store, nextId>>
        ELSE IF \/ body.userId \notin DOMAIN users
                \/ body.roleId \notin DOMAIN roles
                \/ userRole \in userRoles
        THEN /\ last' = answer(500)
             /\ UNCHANGED <<inflight, store, nextId>>
        ELSE /\ userRoles' = userRoles \cup {userRole}
             /\ last' = answer(201)
             /\ UNCHANGED <<inflight, organizations, roles, committees, permissions, tasks,
                            assignments, comments, users, nextId>>

\* a fault: the route answers without deleting the row
RemoveRole_NoEffect(userId, ofUserId, roleId) ==
    LET guard == CheckIsAdmin(userId)
        answer(code) == [Response("removeRole", userId, NoId, NoId, code, Undefined, {})
                            EXCEPT !.roleId = roleId]
    IN  /\ last' = answer(IF guard # 0 THEN guard ELSE 200)
        /\ UNCHANGED <<inflight, store, nextId>>

\* DELETE /roles/assign/:userId/:roleId, behind checkIsAdmin
RemoveRole(userId, ofUserId, roleId) ==
    LET guard == CheckIsAdmin(userId)
        answer(code) == [Response("removeRole", userId, NoId, NoId, code, Undefined, {})
                            EXCEPT !.roleId = roleId]
    IN  IF guard # 0
        THEN /\ last' = answer(guard)
             /\ UNCHANGED <<inflight, store, nextId>>
        ELSE /\ userRoles' = {ur \in userRoles :
                                 ~(ur.userId = ofUserId /\ ur.roleId = roleId)}
             /\ last' = answer(200)
             /\ UNCHANGED <<inflight, organizations, roles, committees, permissions, tasks,
                            assignments, comments, users, nextId>>

\* a fault: rows are created for the level NONE too
PermissionsToCreate_Unfiltered(roleId, list) ==
    [i \in DOMAIN list |-> [roleId |-> roleId, committeeId |-> list[i].committeeId,
                            permissionLevel |-> list[i].permissionLevel]]

\* "Create new permissions (only for non-NONE levels)"
PermissionsToCreate(roleId, list) ==
    LET kept == SelectSeq(list, LAMBDA e : e.permissionLevel # NONE)
    IN  [i \in DOMAIN kept |-> [roleId |-> roleId, committeeId |-> kept[i].committeeId,
                                permissionLevel |-> kept[i].permissionLevel]]

\* a fault: the table has the foreign keys and no unique index
CreateManyAccepted_NoIndex(toCreate, rows) ==
    \A i \in DOMAIN toCreate :
        /\ toCreate[i].roleId \in DOMAIN roles
        /\ toCreate[i].committeeId \in DOMAIN committees

\* createMany: the foreign keys to roles and committees and the unique index
\* role_committee_permissions(role_id, committee_id) accept the rows, next to rows
CreateManyAccepted(toCreate, rows) ==
    /\ \A i \in DOMAIN toCreate :
          /\ toCreate[i].roleId \in DOMAIN roles
          /\ toCreate[i].committeeId \in DOMAIN committees
          /\ ~\E q \in rows : /\ q.roleId = toCreate[i].roleId
                              /\ q.committeeId = toCreate[i].committeeId
    /\ \A i, j \in DOMAIN toCreate :
          (i # j) => (toCreate[i].committeeId # toCreate[j].committeeId)

\* a fault: a list with a committee of another organization than the role's is
\* refused before the rows are touched
PermissionsAfter_SameOrganization(roleId, list) ==
    LET deleted == {q \in permissions : q.roleId # roleId}
        permissionsToCreate == PermissionsToCreate(roleId, list)
    IN  IF \E i \in DOMAIN list :
               /\ roleId \in DOMAIN roles
               /\ list[i].committeeId \in DOMAIN committees
               /\ committees[list[i].committeeId].organizationId # roles[roleId].organizationId
        THEN [permissions |-> permissions, code |-> 400]
        ELSE IF Len(permissionsToCreate) = 0
        THEN [permissions |-> deleted, code |-> 200]
        ELSE IF CreateManyAccepted(permissionsToCreate, deleted)
        THEN [permissions |-> deleted \cup Range(permissionsToCreate), code |-> 200]
        ELSE [permissions |-> deleted, code |-> 500]

\* POST /roles/permissions, after the guard and the schema: the permission rows it
\* leaves and its answer
PermissionsAfter(roleId, list) ==
    LET deleted == {q \in permissions : q.roleId # roleId}
        permissionsToCreate == PermissionsToCreate(roleId, list)
    IN  IF Len(permissionsToCreate) = 0
        THEN [permissions |-> deleted, code |-> 200]
        ELSE IF CreateManyAccepted(permissionsToCreate, deleted)
        THEN [permissions |-> deleted \cup Range(permissionsToCreate), code |-> 200]
        ELSE [permissions |-> deleted, code |-> 500]

\* POST /roles/permissions, behind checkIsAdmin; body: [valid, roleId, permissions]
SetPermissions(userId, body) ==
    LET guard == CheckIsAdmin(userId)
        answer(code) == [Response("setPermissions", userId, NoId, NoId, code, Undefined, {})
                            EXCEPT !.roleId = body.roleId, !.permissions = body.permissions]
        after == PermissionsAfter(body.roleId, body.permissions)
    IN  IF guard # 0
        THEN /\ last' = answer(guard)
             /\ UNCHANGED <<inflight, store, nextId>>
        ELSE IF ~body.valid
        THEN /\ last' = [answer(400) EXCEPT !.error = ValidationError]
             /\ UNCHANGED <<inflight, store, nextId>>
        ELSE /\ permissions' = after.permissions
             /\ last' = answer(after.code)
             /\ UNCHANGED <<inflight, organizations, roles, committees, userRoles, tasks,
                            assignments, comments, users, nextId>>

----------------------------------------------------------------------------
(* routes/committees: the write routes *)

\* the unique index committees(organization_id, name), for a row other than except
CommitteeNameTaken(organizationId, name, except) ==
    \E c \in DOMAIN committees \ {except} :
        committees[c].organizationId = organizationId /\ committees[c].name = name

\* POST /committees, behind checkIsAdmin; data: [valid, name, organizationId]
CreateCommittee(userId, data) ==
    LET guard == CheckIsAdmin(userId)
        answer(code) == Response("createCommittee", userId, NoId, NoId, code, Undefined, {})
        id == nextId.committee
    IN  IF guard # 0
        THEN /\ last' = answer(guard)
             /\ UNCHANGED <<inflight, store, nextId>>
        ELSE IF ~data.valid
        THEN /\ last' = [answer(400) EXCEPT !.error = ValidationError]
             /\ UNCHANGED <<inflight, store, nextId>>
        ELSE IF \/ data.organizationId \notin DOMAIN organizations
                \/ CommitteeNameTaken(data.organizationId, Value(data.name), NoId)
        THEN /\ last' = answer(500)
             /\ UNCHANGED <<inflight, store, nextId>>
        ELSE /\ committees' = committees @@
                     (id :> [organizationId |-> data.organizationId,
                             name |-> Value(data.name)])
             /\ nextId' = [nextId EXCEPT !.committee = id + 1]
             /\ last' = [answer(201) EXCEPT !.committeeId = id]
             /\ UNCHANGED <<inflight, organizations, roles, permissions, userRoles, tasks,
                            assignments, comments, users>>

\* PUT /committees/:id, behind checkIsAdmin; data: [valid, name], name optional
UpdateCommittee(userId, id, data) ==
    LET guard == CheckIsAdmin(userId)
        answer(code) == Response("updateCommittee", userId, id, NoId, code, Undefined, {})
    IN  IF guard # 0
        THEN /\ last' = answer(guard)
             /\ UNCHANGED <<inflight, store, nextId>>
        ELSE IF ~data.valid
        THEN /\ last' = [answer(400) EXCEPT !.error = ValidationError]
             /\ UNCHANGED <<inflight, store, nextId>>
        ELSE IF \/ id \notin DOMAIN committees
                \/ /\ data.name # None
                   /\ CommitteeNameTaken(committees[id].organizationId, Value(data.name), id)
        THEN /\ last' = answer(500)
             /\ UNCHANGED <<inflight, store, nextId>>
        ELSE /\ committees' = [committees EXCEPT
                     ![id].name = IF data.name = None THEN @ ELSE Value(data.name)]
             /\ last' = answer(200)
             /\ UNCHANGED <<inflight, organizations, roles, permissions, userRoles, tasks,
                            assignments, comments, users, nextId>>

\* DELETE /committees/:id, behind checkIsAdmin; ON DELETE CASCADE of
\* role_committee_permissions and tasks, and of the tasks' assignments and comments
DeleteCommittee(userId, id) ==
    LET guard == CheckIsAdmin(userId)
        answer(code) == Response("deleteCommittee", userId, id, NoId, code, Undefined, {})
        gone == {t \in DOMAIN tasks : tasks[t].committeeId = id}
    IN  IF guard # 0
        THEN /\ last' = answer(guard)
             /\ UNCHANGED <<inflight, store, nextId>>
        ELSE IF id \notin DOMAIN committees
        THEN /\ last' = answer(500)
             /\ UNCHANGED <<inflight, store, nextId>>
        ELSE /\ committees' = [c \in DOMAIN committees \ {id} |-> committees[c]]
             /\ permissions' = {q \in permissions : q.committeeId # id}
             /\ tasks' = WithoutTasks(gone)
             /\ assignments' = WithoutAssignmentsOf(gone)
             /\ comments' = WithoutCommentsOf(gone)
             /\ last' = answer(200)
             /\ UNCHANGED <<inflight, organizations, roles, userRoles, users, nextId>>

----------------------------------------------------------------------------
(* routes/users: the admin routes *)

\* GET /users, behind checkIsAdmin
ListUsers(userId) ==
    LET guard == CheckIsAdmin(userId)
        answer(code) == Response("listUsers", userId, NoId, NoId, code, Undefined, {})
    IN  /\ last' = IF guard # 0 THEN answer(guard)
                   ELSE IF OrganizationsOfAdmin(userId) = {} THEN answer(404)
                   ELSE answer(200)
        /\ UNCHANGED <<inflight, store, nextId>>

\* POST /users/:id/deactivate and POST /users/:id/activate, behind checkIsAdmin
SetActive(op, userId, id, isActive) ==
    LET guard == CheckIsAdmin(userId)
        answer(code) == Response(op, userId, NoId, NoId, code, Undefined, {})
    IN  IF guard # 0
        THEN /\ last' = answer(guard)
             /\ UNCHANGED <<inflight, store, nextId>>
        ELSE IF id \notin DOMAIN users
        THEN /\ last' = answer(500)
             /\ UNCHANGED <<inflight, store, nextId>>
        ELSE /\ users' = [users EXCEPT ![id].isActive = isActive]
             /\ last' = answer(200)
             /\ UNCHANGED <<inflight, organizations, roles, committees, permissions, userRoles,
                            tasks, assignments, comments, nextId>>

DeactivateUser(userId, id) == SetActive("deactivateUser", userId, id, FALSE)
ActivateUser(userId, id) == SetActive("activateUser", userId, id, TRUE)

\* PUT /users/:id: "Check if user is admin or updating themselves"; the body carries
\* the name, which the rows of users here do not keep
UpdateUser(userId, id, valid) ==
    LET answer(code) == Response("updateUser", userId, NoId, NoId, code, Undefined, {})
    IN  /\ last' = IF ~valid THEN [answer(400) EXCEPT !.error = ValidationError]
                   ELSE IF OrganizationsOfAdmin(userId) = {} /\ id # userId THEN answer(403)
                   ELSE IF id \notin DOMAIN users THEN answer(500)
                   ELSE answer(200)
        /\ UNCHANGED <<inflight, store, nextId>>

----------------------------------------------------------------------------
(* Handlers in their database steps: each await of a handler is a step of its own, *)
(* and the steps of the requests on other connections run between them             *)

\* a request in flight on a connection: pc is the query it is about to run, and
\* "answered" with the code of the answer once the response is sent
Pending(op, pc, userId, id, data) ==
    [op |-> op, pc |-> pc, userId |-> userId, id |-> id, data |-> data, code |-> 0]
Answered(request, code) == [request EXCEPT !.pc = "answered", !.code = code]

\* the connection takes a new request
Free(connection) ==
    IF inflight[connection] = Idle THEN TRUE ELSE inflight[connection].pc = "answered"

\* the connection holds a request of the handler that is about to run the query
At(connection, op, pc) ==
    IF inflight[connection] = Idle THEN FALSE
    ELSE inflight[connection].op = op /\ inflight[connection].pc = pc

\* PUT /tasks/:id up to the await of prisma.task.update: schema, the task and the
\* leader check
CheckUpdateTask(connection, userId, id, data) ==
    LET request == Pending("updateTask", "update", userId, id, data)
        answer(code) == Response("updateTask", userId,
                                 IF id \in DOMAIN tasks THEN tasks[id].committeeId ELSE NoId,
                                 id, code, Undefined, {})
        code == IF ~data.valid THEN 400
                ELSE IF id \notin DOMAIN tasks THEN 404
                ELSE IF ~IsLeaderUpdate(userId, tasks[id]) THEN 403
                ELSE 0
    IN  /\ Free(connection)
        /\ IF code # 0
           THEN /\ last' = answer(code)
                /\ inflight' = [inflight EXCEPT ![connection] = Answered(request, code)]
           ELSE /\ inflight' = [inflight EXCEPT ![connection] = request]
                /\ UNCHANGED last
        /\ UNCHANGED <<store, nextId>>

\* prisma.task.update of a request in flight; without assigneeIds the answer follows
WriteUpdateTask(connection) ==
    LET request == inflight[connection]
        id == request.id
        answer(code) == Response("updateTask", request.userId,
                                 IF id \in DOMAIN tasks THEN tasks[id].committeeId ELSE NoId,
                                 id, code, Undefined, {})
    IN  /\ At(connection, "updateTask", "update")
        /\ IF id \notin DOMAIN tasks
           THEN /\ last' = answer(500)
                /\ inflight' = [inflight EXCEPT ![connection] = Answered(request, 500)]
                /\ UNCHANGED tasks
           ELSE /\ tasks' = [tasks EXCEPT ![id] = UpdatedTask(@, request.data)]
                /\ IF request.data.assigneeIds = None
                   THEN /\ last' = answer(200)
                        /\ inflight' = [inflight EXCEPT
                               ![connection] = Answered(request, 200)]
                   ELSE /\ inflight' = [inflight EXCEPT ![connection].pc = "deleteMany"]
                        /\ UNCHANGED last
        /\ UNCHANGED <<organizations, roles, committees, permissions, userRoles,
                       assignments, comments, users, nextId>>

\* "Remove existing assignees"; with an empty assigneeIds the answer follows
DeleteManyAssignees(connection) ==
    LET request == inflight[connection]
        id == request.id
        answer(code) == Response("updateTask", request.userId,
                                 IF id \in DOMAIN tasks THEN tasks[id].committeeId ELSE NoId,
                                 id, code, Undefined, {})
    IN  /\ At(connection, "updateTask", "deleteMany")
        /\ assignments' = {a \in assignments : a.taskId # id}
        /\ IF Value(request.data.assigneeIds) = <<>>
           THEN /\ last' = answer(200)
                /\ inflight' = [inflight EXCEPT ![connection] = Answered(request, 200)]
           ELSE /\ inflight' = [inflight EXCEPT ![connection].pc = "createMany"]
                /\ UNCHANGED last
        /\ UNCHANGED <<organizations, roles, committees, permissions, userRoles, tasks,
                       comments, users, nextId>>

\* "Add new assignees" and the answer: the foreign keys and the unique index
\* task_assignments(task_id, user_id) accept the rows next to the rows there are
CreateManyAssignees(connection) ==
    LET request == inflight[connection]
        id == request.id
        assigneeIds == Value(request.data.assigneeIds)
        answer(code) == Response("updateTask", request.userId,
                                 IF id \in DOMAIN tasks THEN tasks[id].committeeId ELSE NoId,
                                 id, code, Undefined, {})
        accepted == /\ id \in DOMAIN tasks
                    /\ AssigneesAccepted(assigneeIds)
                    /\ AssignmentRows(id, assigneeIds) \cap assignments = {}
    IN  /\ At(connection, "updateTask", "createMany")
        /\ assignments' = IF accepted THEN assignments \cup AssignmentRows(id, assigneeIds)
                          ELSE assignments
        /\ last' = answer(IF accepted THEN 200 ELSE 500)
        /\ inflight' = [inflight EXCEPT
               ![connection] = Answered(request, IF accepted THEN 200 ELSE 500)]
        /\ UNCHANGED <<organizations, roles, committees, permissions, userRoles, tasks,
                       comments, users, nextId>>

\* POST /roles/permissions up to the await of deleteMany: checkIsAdmin and the schema
CheckSetPermissions(connection, userId, body) ==
    LET guard == CheckIsAdmin(userId)
        request == Pending("setPermissions", "deleteMany", userId, body.roleId,
                           body.permissions)
        answer(code) == [Response("setPermissions", userId, NoId, NoId, code, Undefined, {})
                            EXCEPT !.roleId = body.roleId, !.permissions = body.permissions]
        code == IF guard # 0 THEN guard ELSE IF ~body.valid THEN 400 ELSE 0
    IN  /\ Free(connection)
        /\ IF code # 0
           THEN /\ last' = [answer(code) EXCEPT
                               !.error = IF code = 400 THEN ValidationError ELSE @]
                /\ inflight' = [inflight EXCEPT ![connection] = Answered(request, code)]
           ELSE /\ inflight' = [inflight EXCEPT ![connection] = request]
                /\ UNCHANGED last
        /\ UNCHANGED <<store, nextId>>

\* "Delete existing permissions for this role"; when every entry of the list is
\* NONE createMany is skipped and the answer follows
DeleteManyPermissions(connection) ==
    LET request == inflight[connection]
        answer(code) == [Response("setPermissions", request.userId, NoId, NoId, code,
                                  Undefined, {})
                            EXCEPT !.roleId = request.id, !.permissions = request.data]
    IN  /\ At(connection, "setPermissions", "deleteMany")
        /\ permissions' = {q \in permissions : q.roleId # request.id}
        /\ IF Len(PermissionsToCreate(request.id, request.data)) = 0
           THEN /\ last' = answer(200)
                /\ inflight' = [inflight EXCEPT ![connection] = Answered(request, 200)]
           ELSE /\ inflight' = [inflight EXCEPT ![connection].pc = "createMany"]
                /\ UNCHANGED last
        /\ UNCHANGED <<organizations, roles, committees, userRoles, tasks, assignments,
                       comments, users, nextId>>

\* "Create new permissions" and the answer: the rows are accepted next to the rows
\* the table holds when the query runs
CreateManyPermissions(connection) ==
    LET request == inflight[connection]
        permissionsToCreate == PermissionsToCreate(request.id, request.data)
        answer(code) == [Response("setPermissions", request.userId, NoId, NoId, code,
                                  Undefined, {})
                            EXCEPT !.roleId = request.id, !.permissions = request.data]
        accepted == CreateManyAccepted(permissionsToCreate, permissions)
    IN  /\ At(connection, "setPermissions", "createMany")
        /\ permissions' = IF accepted THEN permissions \cup Range(permissionsToCreate)
                          ELSE permissions
        /\ last' = answer(IF accepted THEN 200 ELSE 500)
        /\ inflight' = [inflight EXCEPT
               ![connection] = Answered(request, IF accepted THEN 200 ELSE 500)]
        /\ UNCHANGED <<organizations, roles, committees, userRoles, tasks, assignments,
                       comments, users, nextId>>

----------------------------------------------------------------------------
(* The guard applied on its own, for every requirement it accepts *)

Requirements == {NONE, MEMBER, LEADER, ADMIN}

ApplyGuard(requiredLevel, userId, committeeId) ==
    /\ LET guard == CheckCommitteePermission(requiredLevel, userId, committeeId)
       IN  last' = Guarded(Response("guard", userId, committeeId, NoId, guard.code,
                                     guard.userPermission, {}), requiredLevel)
    /\ UNCHANGED <<inflight, store, nextId>>

----------------------------------------------------------------------------
(* Stores the administration routes can build *)

OrgRow(admin) == [adminUserId |-> admin, name |-> "n1"]
RoleRow(org, name) == [organizationId |-> org, name |-> name]
CommitteeRow(org, name) == [organizationId |-> org, name |-> name]
PermissionRows(level) ==
    {[roleId |-> rc[1], committeeId |-> rc[2], permissionLevel |-> level[rc]] :
        rc \in {x \in DOMAIN level : level[x] # NONE}}
UserRoleRows(pairs) == {[userId |-> p[1], roleId |-> p[2]] : p \in pairs}

\* Organization 1 of u1 with role 1 and committee 1, and either everything else in
\* it too, or a second organization (of u2, or of u3 who never calls) with role 2
\* and committee 2; every assignment of levels to (role, committee); u1 with or
\* without role 1, u2 with any roles.
InitResolver ==
    /\ \E admin2 \in {NoUser, "u2", "u3"} :
          LET o == IF admin2 = NoUser THEN 1 ELSE 2
          IN  /\ organizations = IF admin2 = NoUser THEN (1 :> OrgRow("u1"))
                                 ELSE (1 :> OrgRow("u1")) @@ (2 :> OrgRow(admin2))
              /\ roles = (1 :> RoleRow(1, "n1")) @@ (2 :> RoleRow(o, "n2"))
              /\ committees = (1 :> CommitteeRow(1, "n1")) @@ (2 :> CommitteeRow(o, "n2"))
    /\ \E level \in [{1, 2} \X {1, 2} -> PermissionLevel] :
          permissions = PermissionRows(level)
    /\ \E pairs \in SUBSET {<<"u1", 1>>, <<"u2", 1>>, <<"u2", 2>>} :
          userRoles = UserRoleRows(pairs)
    /\ tasks = <<>>
    /\ assignments = {}
    /\ comments = {}
    /\ users = [u \in Users |-> [isActive |-> TRUE]]
    /\ nextId = [organization |-> 3, role |-> 3, committee |-> 3, task |-> 1, comment |-> 1]
    /\ last = NoRequest
    /\ inflight = NoneInFlight

NextResolver ==
    \/ \E r \in Requirements, u \in Callers, c \in {NoId, 1, 2, 3} : ApplyGuard(r, u, c)
    \/ \E u \in Callers, c \in {1, 2, 3} : GetCommitteeTasks(u, c)
    \/ \E u \in Callers : GetCommittees(u)
    \/ \E u \in Callers, c \in {1, 2, 3} : GetCommittee(u, c)

SpecResolver == InitResolver /\ [][NextResolver]_vars

----------------------------------------------------------------------------
(* The task routes over the stores of two organizations *)

MaxTasks == 1
MaxComments == 1

\* the bodies the requests carry
\* (NoBody is a body the route's schema rejects)
NoBody == [valid |-> FALSE, title |-> None, committeeId |-> NoId,
           status |-> None, position |-> None, assigneeIds |-> None]
CreateBodies ==
    {[NoBody EXCEPT !.valid = TRUE, !.title = "a", !.committeeId = c, !.assigneeIds = a] :
        c \in {1, 2}, a \in {None, Some(<<"u2">>)}}
UpdateBodies ==
    {[NoBody EXCEPT !.valid = TRUE, !.title = Some("b")],
     [NoBody EXCEPT !.valid = TRUE, !.status = Some(DONE), !.position = Some(1),
                    !.assigneeIds = Some(<<"u1">>)],
     NoBody}
StatusBodies ==
    {[NoBody EXCEPT !.valid = TRUE, !.status = Some(st)] : st \in {IN_PROGRESS, DONE}}
        \cup {NoBody}

\* u1 administers organization 1 with committee 1, u2 organization 2 with committee
\* 2; roles 1 and 2 of organization 1 have any level on committee 1; u1 holds role 1
\* or nothing, u2 any roles; one task of u3 in either committee, or none.
InitTasks ==
    /\ organizations = (1 :> OrgRow("u1")) @@ (2 :> OrgRow("u2"))
    /\ roles = (1 :> RoleRow(1, "n1")) @@ (2 :> RoleRow(1, "n2"))
    /\ committees = (1 :> CommitteeRow(1, "n1")) @@ (2 :> CommitteeRow(2, "n2"))
    /\ \E level \in [{<<1, 1>>, <<2, 1>>} -> PermissionLevel] :
          permissions = PermissionRows(level)
    /\ \E pairs \in SUBSET {<<"u1", 1>>, <<"u2", 1>>, <<"u2", 2>>} :
          userRoles = UserRoleRows(pairs)
    /\ \E c \in {NoId, 1, 2} :
          /\ tasks = IF c = NoId THEN <<>>
                     ELSE (1 :> [committeeId |-> c, status |-> TODO, position |-> 0,
                                 createdById |-> "u3", title |-> "a"])
          /\ nextId = [organization |-> 3, role |-> 3, committee |-> 3,
                       task |-> IF c = NoId THEN 1 ELSE 2, comment |-> 1]
    /\ assignments = {}
    /\ comments = {}
    /\ users = [u \in Users |-> [isActive |-> TRUE]]
    /\ last = NoRequest
    /\ inflight = NoneInFlight

Next ==
    \/ \E u \in Callers : GetCommittees(u)
    \/ \E u \in Callers, c \in {1, 2} : GetCommittee(u, c)
    \/ \E u \in Callers, t \in 1..MaxTasks : GetTask(u, t)
    \/ \E u \in Callers, body \in CreateBodies :
          /\ CreateTask(u, body)
          /\ last'.code = 201 => nextId.task <= MaxTasks
    \/ \E u \in Callers, t \in 1..MaxTasks, data \in UpdateBodies : UpdateTask(u, t, data)
    \/ \E u \in Callers, t \in 1..MaxTasks, body \in StatusBodies : UpdateTaskStatus(u, t, body)
    \/ \E u \in Callers, t \in 1..MaxTasks : DeleteTask(u, t)
    \/ \E u \in Callers, t \in 1..MaxTasks, valid \in BOOLEAN :
          /\ AddComment(u, t, valid)
          /\ last'.code = 201 => nextId.comment <= MaxComments

Spec == InitTasks /\ [][Next]_vars

----------------------------------------------------------------------------
(* Organization-level administration, from the empty store *)

MaxOrgs == 2
MaxRoles == 1
MaxCommittees == 1

\* the bodies the requests carry, each with one body the route's schema rejects
OrganizationBodies ==
    {[valid |-> TRUE, name |-> Some("n1")], [valid |-> FALSE, name |-> None]}
RenameBodies ==
    {[valid |-> TRUE, name |-> Some("n2")], [valid |-> FALSE, name |-> None]}
CreateBodiesAdmin ==
    {[valid |-> TRUE, name |-> Some("n1"), organizationId |-> o] : o \in 1..MaxOrgs}
        \cup {[valid |-> FALSE, name |-> None, organizationId |-> NoId]}
AssignBodies ==
    {[valid |-> TRUE, userId |-> "u2", roleId |-> r] : r \in 1..MaxRoles}
        \cup {[valid |-> FALSE, userId |-> NoUser, roleId |-> NoId]}
PermissionBodiesAdmin ==
    {[valid |-> TRUE, roleId |-> r, permissions |-> l] :
        r \in 1..MaxRoles,
        l \in {<<>>} \cup {<<[committeeId |-> c, permissionLevel |-> LEADER]>> :
                              c \in 1..MaxCommittees}}
        \cup {[valid |-> FALSE, roleId |-> NoId, permissions |-> <<>>]}

InitAdmin ==
    /\ organizations = <<>>
    /\ roles = <<>>
    /\ committees = <<>>
    /\ permissions = {}
    /\ userRoles = {}
    /\ tasks = <<>>
    /\ assignments = {}
    /\ comments = {}
    /\ users = [u \in Users |-> [isActive |-> TRUE]]
    /\ nextId = [organization |-> 1, role |-> 1, committee |-> 1, task |-> 1, comment |-> 1]
    /\ last = NoRequest
    /\ inflight = NoneInFlight

NextAdmin ==
    \/ \E u \in Callers, data \in OrganizationBodies :
          /\ CreateOrganization(u, data)
          /\ last'.code = 201 => nextId.organization <= MaxOrgs
    \/ \E u \in Callers, o \in 1..MaxOrgs, data \in RenameBodies : UpdateOrganization(u, o, data)
    \/ \E u \in Callers, data \in CreateBodiesAdmin :
          /\ CreateRole(u, data)
          /\ last'.code = 201 => nextId.role <= MaxRoles
    \/ \E u \in Callers, r \in 1..MaxRoles, data \in RenameBodies : UpdateRole(u, r, data)
    \/ \E u \in Callers, r \in 1..MaxRoles : DeleteRole(u, r)
    \/ \E u \in Callers, body \in AssignBodies : AssignRole(u, body)
    \/ \E u \in Callers, r \in 1..MaxRoles : RemoveRole(u, "u2", r)
    \/ \E u \in Callers, body \in PermissionBodiesAdmin : SetPermissions(u, body)
    \/ \E u \in Callers, data \in CreateBodiesAdmin :
          /\ CreateCommittee(u, data)
          /\ last'.code = 201 => nextId.committee <= MaxCommittees
    \/ \E u \in Callers, c \in 1..MaxCommittees, data \in RenameBodies : UpdateCommittee(u, c, data)
    \/ \E u \in Callers, c \in 1..MaxCommittees : DeleteCommittee(u, c)
    \/ \E u \in Callers : ListUsers(u)
    \/ \E u \in Callers : DeactivateUser(u, "u3")
    \/ \E u \in Callers : ActivateUser(u, "u3")

SpecAdmin == InitAdmin /\ [][NextAdmin]_vars

----------------------------------------------------------------------------
(* POST /roles/permissions over the stores of one organization *)

MaxEntries == 2

\* the entries of a permissions list: committee 3 does not exist
Entries ==
    {[committeeId |-> 1, permissionLevel |-> l] : l \in PermissionLevel}
        \cup {[committeeId |-> c, permissionLevel |-> LEADER] : c \in {2, 3}}
PermissionLists == UNION {[1..n -> Entries] : n \in 0..MaxEntries}

\* organization 1 of u1 with roles 1 and 2 and committees 1 and 2; any rows of role 1,
\* and role 2 with the same level on both committees
InitPermissions ==
    /\ organizations = (1 :> OrgRow("u1"))
    /\ roles = (1 :> RoleRow(1, "n1")) @@ (2 :> RoleRow(1, "n2"))
    /\ committees = (1 :> CommitteeRow(1, "n1")) @@ (2 :> CommitteeRow(1, "n2"))
    /\ \E level \in [{1, 2} \X {1, 2} -> PermissionLevel] :
          /\ level[<<2, 1>>] = level[<<2, 2>>]
          /\ permissions = PermissionRows(level)
    /\ userRoles = {}
    /\ tasks = <<>>
    /\ assignments = {}
    /\ comments = {}
    /\ users = [u \in Users |-> [isActive |-> TRUE]]
    /\ nextId = [organization |-> 2, role |-> 3, committee |-> 3, task |-> 1, comment |-> 1]
    /\ last = NoRequest
    /\ inflight = NoneInFlight

\* the admin sets the permissions of role 1, and of role 3, which does not exist
NextPermissions ==
    \E r \in {1, 3}, l \in PermissionLists :
        SetPermissions("u1", [valid |-> TRUE, roleId |-> r, permissions |-> l])

SpecPermissions == InitPermissions /\ [][NextPermissions]_vars

----------------------------------------------------------------------------
(* The life of a role, a committee and a task in one organization *)

\* one role and one committee: the requests address role 1 and committee 1
LifecycleRoleIds == {1}
LifecycleCommitteeIds == {1}

\* the bodies the requests carry
LifecycleCreateBody == [valid |-> TRUE, name |-> Some("n1"), organizationId |-> 1]
LifecycleAssignBodies ==
    {[valid |-> TRUE, userId |-> "u2", roleId |-> r] : r \in LifecycleRoleIds}
LifecyclePermissionBodies ==
    {[valid |-> TRUE, roleId |-> r, permissions |-> l] :
        r \in LifecycleRoleIds,
        l \in {<<>>} \cup {<<[committeeId |-> c, permissionLevel |-> level]>> :
                              c \in LifecycleCommitteeIds, level \in {MEMBER, LEADER}}}
LifecycleTaskBodies ==
    {[NoBody EXCEPT !.valid = TRUE, !.title = "a", !.committeeId = c, !.assigneeIds = a] :
        c \in LifecycleCommitteeIds, a \in {None, Some(<<"u2">>)}}
LifecycleUpdateBody == [NoBody EXCEPT !.valid = TRUE, !.assigneeIds = Some(<<"u2">>)]
LifecycleStatusBody == [NoBody EXCEPT !.valid = TRUE, !.status = Some(DONE)]

\* organization 1 of u1, and nothing in it
InitLifecycle ==
    /\ organizations = (1 :> OrgRow("u1"))
    /\ roles = <<>>
    /\ committees = <<>>
    /\ permissions = {}
    /\ userRoles = {}
    /\ tasks = <<>>
    /\ assignments = {}
    /\ comments = {}
    /\ users = [u \in Users |-> [isActive |-> TRUE]]
    /\ nextId = [organization |-> 2, role |-> 1, committee |-> 1, task |-> 1, comment |-> 1]
    /\ last = NoRequest
    /\ inflight = NoneInFlight

\* the guards answer the request without a user themselves; u1 and u2 call every route
NextLifecycle ==
    \/ \E u \in Callers \cup {NoUser} :
          /\ CreateRole(u, LifecycleCreateBody)
          /\ last'.code = 201 => nextId.role \in LifecycleRoleIds
    \/ \E u \in Callers \cup {NoUser}, r \in LifecycleRoleIds : DeleteRole(u, r)
    \/ \E u \in Callers, body \in LifecycleAssignBodies : AssignRole(u, body)
    \/ \E u \in Callers, r \in LifecycleRoleIds : RemoveRole(u, "u2", r)
    \/ \E u \in Callers, body \in LifecyclePermissionBodies : SetPermissions(u, body)
    \/ \E u \in Callers :
          /\ CreateCommittee(u, LifecycleCreateBody)
          /\ last'.code = 201 => nextId.committee \in LifecycleCommitteeIds
    \/ \E u \in Callers, c \in LifecycleCommitteeIds : DeleteCommittee(u, c)
    \/ \E u \in Callers, c \in LifecycleCommitteeIds : GetCommittee(u, c)
    \/ \E u \in Callers \cup {NoUser}, c \in LifecycleCommitteeIds : GetCommitteeTasks(u, c)
    \/ \E u \in Callers, t \in 1..MaxTasks : GetTask(u, t)
    \/ \E u \in Callers, body \in LifecycleTaskBodies :
          /\ CreateTask(u, body)
          /\ last'.code = 201 => nextId.task <= MaxTasks
    \/ \E u \in Callers, t \in 1..MaxTasks : UpdateTask(u, t, LifecycleUpdateBody)
    \/ \E u \in Callers, t \in 1..MaxTasks : UpdateTaskStatus(u, t, LifecycleStatusBody)
    \/ \E u \in Callers, t \in 1..MaxTasks : DeleteTask(u, t)
    \/ \E u \in Callers, t \in 1..MaxTasks :
          /\ AddComment(u, t, TRUE)
          /\ last'.code = 201 => nextId.comment <= MaxComments
    \/ \E u \in Callers, id \in Callers : UpdateUser(u, id, TRUE)

SpecLifecycle == InitLifecycle /\ [][NextLifecycle]_vars

----------------------------------------------------------------------------
(* The board of one committee: tasks created, moved between the columns and listed *)

MaxBoardTasks == 2

BoardCreateBody == [NoBody EXCEPT !.valid = TRUE, !.title = "a", !.committeeId = 1]
BoardStatusBodies ==
    {[NoBody EXCEPT !.valid = TRUE, !.status = Some(st), !.position = pos] :
        st \in TaskStatus, pos \in {None, Some(2)}}
BoardUpdateBody == [NoBody EXCEPT !.valid = TRUE, !.status = Some(IN_PROGRESS)]

\* u1 administers organization 1 with committee 1; role 1 is LEADER and role 2
\* MEMBER on the committee; u2 holds role 1 and u3 role 2; the board is empty.
InitBoard ==
    /\ organizations = (1 :> OrgRow("u1"))
    /\ roles = (1 :> RoleRow(1, "n1")) @@ (2 :> RoleRow(1, "n2"))
    /\ committees = (1 :> CommitteeRow(1, "n1"))
    /\ permissions = PermissionRows((<<1, 1>> :> LEADER) @@ (<<2, 1>> :> MEMBER))
    /\ userRoles = UserRoleRows({<<"u2", 1>>, <<"u3", 2>>})
    /\ tasks = <<>>
    /\ assignments = {}
    /\ comments = {}
    /\ users = [u \in Users |-> [isActive |-> TRUE]]
    /\ nextId = [organization |-> 2, role |-> 3, committee |-> 2, task |-> 1, comment |-> 1]
    /\ last = NoRequest
    /\ inflight = NoneInFlight

NextBoard ==
    \/ \E u \in Users :
          /\ CreateTask(u, BoardCreateBody)
          /\ last'.code = 201 => nextId.task <= MaxBoardTasks
    \/ \E u \in Users, t \in 1..MaxBoardTasks, body \in BoardStatusBodies :
          UpdateTaskStatus(u, t, body)
    \/ \E u \in Users, t \in 1..MaxBoardTasks : UpdateTask(u, t, BoardUpdateBody)
    \/ \E u \in Users : GetCommitteeTasks(u, 1)

SpecBoard == InitBoard /\ [][NextBoard]_vars

----------------------------------------------------------------------------
(* POST /organizations of several connections at once *)

InitRace ==
    /\ organizations = <<>>
    /\ roles = <<>>
    /\ committees = <<>>
    /\ permissions = {}
    /\ userRoles = {}
    /\ tasks = <<>>
    /\ assignments = {}
    /\ comments = {}
    /\ users = [u \in Users |-> [isActive |-> TRUE]]
    /\ nextId = [organization |-> 1, role |-> 1, committee |-> 1, task |-> 1, comment |-> 1]
    /\ last = NoRequest
    /\ inflight = NoneInFlight

NextRace ==
    \/ \E connection \in 1..MaxInFlight, u \in Callers, data \in OrganizationBodies :
          CheckOrganization(connection, u, data)
    \/ \E connection \in 1..MaxInFlight :
          /\ InsertOrganization(connection)
          /\ nextId.organization <= MaxOrgs
    \/ \E u \in Callers, o \in 1..MaxOrgs, data \in RenameBodies : UpdateOrganization(u, o, data)
    \/ \E u \in Callers : GetCommittees(u)

SpecRace == InitRace /\ [][NextRace]_vars

----------------------------------------------------------------------------
(* Moves of the tasks of a board that has assignees and a comment *)

MoveBodies ==
    {[NoBody EXCEPT !.valid = TRUE, !.status = Some(st), !.position = pos] :
        st \in TaskStatus, pos \in {None, Some(0), Some(1)}}
        \cup {NoBody}

\* the board of committee 1 after u2, a LEADER, created tasks 1 and 2, task 2 was
\* moved, and u3, a MEMBER, commented on task 1
InitMove ==
    /\ organizations = (1 :> OrgRow("u1"))
    /\ roles = (1 :> RoleRow(1, "n1")) @@ (2 :> RoleRow(1, "n2"))
    /\ committees = (1 :> CommitteeRow(1, "n1"))
    /\ permissions = PermissionRows((<<1, 1>> :> LEADER) @@ (<<2, 1>> :> MEMBER))
    /\ userRoles = UserRoleRows({<<"u2", 1>>, <<"u3", 2>>})
    /\ \E st \in TaskStatus, pos \in {0, 1} :
          tasks = (1 :> [committeeId |-> 1, status |-> TODO, position |-> 0,
                         createdById |-> "u2", title |-> "a"])
                  @@ (2 :> [committeeId |-> 1, status |-> st, position |-> pos,
                            createdById |-> "u2", title |-> "a"])
    /\ assignments = AssignmentRows(1, <<"u3">>) \cup AssignmentRows(2, <<"u2">>)
    /\ comments = {[id |-> 1, taskId |-> 1, userId |-> "u3"]}
    /\ users = [u \in Users |-> [isActive |-> TRUE]]
    /\ nextId = [organization |-> 2, role |-> 3, committee |-> 2, task |-> 3, comment |-> 2]
    /\ last = NoRequest
    /\ inflight = NoneInFlight

NextMove ==
    \/ \E u \in Users, t \in {1, 2, 3}, body \in MoveBodies : UpdateTaskStatus(u, t, body)
    \/ \E u \in Users : GetCommitteeTasks(u, 1)

SpecMove == InitMove /\ [][NextMove]_vars

----------------------------------------------------------------------------
(* PUT /tasks/:id of two leaders on one task at once *)

EditBodies ==
    {[NoBody EXCEPT !.valid = TRUE, !.title = Some("b"), !.assigneeIds = Some(<<"u1">>)],
     [NoBody EXCEPT !.valid = TRUE, !.title = Some("c"), !.assigneeIds = Some(<<"u2">>)],
     [NoBody EXCEPT !.valid = TRUE, !.title = Some("c"),
                    !.assigneeIds = Some(<<"u2", "u1">>)]}

\* u1 administers organization 1 with committee 1, u2 is LEADER of it through role
\* 1; task 1 of the committee is assigned to u3
InitEdit ==
    /\ organizations = (1 :> OrgRow("u1"))
    /\ roles = (1 :> RoleRow(1, "n1"))
    /\ committees = (1 :> CommitteeRow(1, "n1"))
    /\ permissions = PermissionRows((<<1, 1>> :> LEADER))
    /\ userRoles = UserRoleRows({<<"u2", 1>>})
    /\ tasks = (1 :> [committeeId |-> 1, status |-> TODO, position |-> 0,
                      createdById |-> "u2", title |-> "a"])
    /\ assignments = AssignmentRows(1, <<"u3">>)
    /\ comments = {}
    /\ users = [u \in Users |-> [isActive |-> TRUE]]
    /\ nextId = [organization |-> 2, role |-> 2, committee |-> 2, task |-> 2, comment |-> 1]
    /\ last = NoRequest
    /\ inflight = NoneInFlight

NextEdit ==
    \/ \E connection \in 1..MaxInFlight, u \in Callers, data \in EditBodies :
          CheckUpdateTask(connection, u, 1, data)
    \/ \E connection \in 1..MaxInFlight : WriteUpdateTask(connection)
    \/ \E connection \in 1..MaxInFlight : DeleteManyAssignees(connection)
    \/ \E connection \in 1..MaxInFlight : CreateManyAssignees(connection)
    \/ \E u \in Callers : GetTask(u, 1)

SpecEdit == InitEdit /\ [][NextEdit]_vars

----------------------------------------------------------------------------
(* Two organizations: the role of one and the committees of both *)

TenantLists ==
    {<<>>, <<[committeeId |-> 1, permissionLevel |-> LEADER],
             [committeeId |-> 2, permissionLevel |-> LEADER]>>}
        \cup {<<[committeeId |-> c, permissionLevel |-> l]>> :
                 c \in {1, 2}, l \in {MEMBER, LEADER}}
TenantTaskBody == [NoBody EXCEPT !.valid = TRUE, !.title = "a", !.committeeId = 2]
TenantStatusBody == [NoBody EXCEPT !.valid = TRUE, !.status = Some(DONE)]

\* u1 administers organization 1 with role 1 and committee 1, u2 organization 2 with
\* committee 2; u3 holds role 1
InitTenants ==
    /\ organizations = (1 :> OrgRow("u1")) @@ (2 :> OrgRow("u2"))
    /\ roles = (1 :> RoleRow(1, "n1"))
    /\ committees = (1 :> CommitteeRow(1, "n1")) @@ (2 :> CommitteeRow(2, "n1"))
    /\ permissions = {}
    /\ userRoles = UserRoleRows({<<"u3", 1>>})
    /\ tasks = <<>>
    /\ assignments = {}
    /\ comments = {}
    /\ users = [u \in Users |-> [isActive |-> TRUE]]
    /\ nextId = [organization |-> 3, role |-> 2, committee |-> 3, task |-> 1, comment |-> 1]
    /\ last = NoRequest
    /\ inflight = NoneInFlight

NextTenants ==
    \/ \E u \in Users, l \in TenantLists :
          SetPermissions(u, [valid |-> TRUE, roleId |-> 1, permissions |-> l])
    \/ \E u \in Users, c \in {1, 2} : GetCommitteeTasks(u, c)
    \/ \E u \in Users :
          /\ CreateTask(u, TenantTaskBody)
          /\ last'.code = 201 => nextId.task <= MaxTasks
    \/ \E u \in Users, t \in 1..MaxTasks : GetTask(u, t)
    \/ \E u \in Users, t \in 1..MaxTasks : UpdateTaskStatus(u, t, TenantStatusBody)
    \/ \E u \in Users, t \in 1..MaxTasks : DeleteTask(u, t)

SpecTenants == InitTenants /\ [][NextTenants]_vars

----------------------------------------------------------------------------
(* Writes the database rejects, on the board with assignees *)

\* lists createMany accepts, a list with committee 1 twice, and one with
\* committee 3, which does not exist
RejectedLists ==
    {<<[committeeId |-> 1, permissionLevel |-> LEADER]>>,
     <<[committeeId |-> 1, permissionLevel |-> MEMBER],
       [committeeId |-> 1, permissionLevel |-> LEADER]>>,
     <<[committeeId |-> 3, permissionLevel |-> LEADER]>>}

\* bodies with assignees createMany accepts, with u1 twice, and with a user id no
\* user has
RejectedBodies ==
    {[NoBody EXCEPT !.valid = TRUE, !.title = Some("b"), !.assigneeIds = Some(a)] :
        a \in {<<"u1">>, <<"u1", "u1">>, <<"u4">>}}

NextRejected ==
    \/ \E r \in {1, 2}, l \in RejectedLists :
          SetPermissions("u1", [valid |-> TRUE, roleId |-> r, permissions |-> l])
    \/ \E u \in Callers, t \in {1, 2}, data \in RejectedBodies : UpdateTask(u, t, data)
    \/ \E u \in Users, t \in {1, 2} : GetTask(u, t)

SpecRejected == InitMove /\ [][NextRejected]_vars

----------------------------------------------------------------------------
(* PUT /tasks/:id in its steps while the admin changes roles and permissions *)

AuthorizeBodies ==
    {[NoBody EXCEPT !.valid = TRUE, !.title = Some(t)] : t \in {"b", "c"}}
AuthorizeLists ==
    {<<>>, <<[committeeId |-> 1, permissionLevel |-> MEMBER]>>,
     <<[committeeId |-> 1, permissionLevel |-> LEADER]>>}

\* u2 and u3 edit task 1; u1, the admin, removes and assigns role 1 of u2, sets the
\* permissions of role 1 and deletes the role
NextAuthorize ==
    \/ \E connection \in 1..MaxInFlight, u \in {"u2", "u3"}, data \in AuthorizeBodies :
          CheckUpdateTask(connection, u, 1, data)
    \/ \E connection \in 1..MaxInFlight : WriteUpdateTask(connection)
    \/ RemoveRole("u1", "u2", 1)
    \/ AssignRole("u1", [valid |-> TRUE, userId |-> "u2", roleId |-> 1])
    \/ \E l \in AuthorizeLists :
          SetPermissions("u1", [valid |-> TRUE, roleId |-> 1, permissions |-> l])
    \/ DeleteRole("u1", 1)

SpecAuthorize == InitEdit /\ [][NextAuthorize]_vars

----------------------------------------------------------------------------
(* POST /roles/permissions of several connections at once *)

GrantLists ==
    {<<>>,
     <<[committeeId |-> 1, permissionLevel |-> LEADER]>>,
     <<[committeeId |-> 1, permissionLevel |-> MEMBER]>>,
     <<[committeeId |-> 2, permissionLevel |-> LEADER]>>,
     <<[committeeId |-> 1, permissionLevel |-> NONE],
       [committeeId |-> 2, permissionLevel |-> MEMBER]>>}

\* u1, the admin, and u2, who is none, set the permissions of role 1
NextGrant ==
    \/ \E connection \in 1..MaxInFlight, u \in Callers, l \in GrantLists :
          CheckSetPermissions(connection, u,
                              [valid |-> TRUE, roleId |-> 1, permissions |-> l])
    \/ \E connection \in 1..MaxInFlight : DeleteManyPermissions(connection)
    \/ \E connection \in 1..MaxInFlight : CreateManyPermissions(connection)
    \/ \E u \in Callers : GetCommittees(u)

SpecGrant == InitPermissions /\ [][NextGrant]_vars

----------------------------------------------------------------------------
(* What the claims are stated with *)

\* the levels of the permission rows that the roles userId holds have for committeeId
GrantedLevels(userId, committeeId) ==
    {p.permissionLevel : p \in {q \in permissions :
        /\ q.committeeId = committeeId
        /\ \E ur \in userRoles : ur.userId = userId /\ ur.roleId = q.roleId}}

\* their maximum under NONE < MEMBER < LEADER, NONE when there is none
MaxLevel(userId, committeeId) ==
    CHOOSE l \in GrantedLevels(userId, committeeId) \cup {NONE} :
        \A m \in GrantedLevels(userId, committeeId) : Rank(m) <= Rank(l)

\* userId administers no organization
NonAdmin(userId) == OrganizationsOfAdmin(userId) = {}

\* userId administers the organization that owns the existing committee committeeId
AdminOfCommittee(userId, committeeId) ==
    /\ committeeId \in DOMAIN committees
    /\ IsAdminOf(userId, committees[committeeId].organizationId)

\* the effective level of the specification: LEADER for the admin of the owning
\* organization, the maximum over the role rows for everybody else
Effective(userId, committeeId) ==
    IF AdminOfCommittee(userId, committeeId) THEN LEADER ELSE MaxLevel(userId, committeeId)

\* the answers of a request that was granted, and of one whose body the schema rejected
Granted(response) == response.code \in {200, 201}
Malformed(response) == response.code = 400

\* the last request went through checkCommitteePermission
ThroughGuard == last.op \in {"guard", "getCommitteeTasks", "createTask"}

\* the guard let the last request through
Passed == last.code \in {0, 200, 201}

----------------------------------------------------------------------------
(* C1 *)

\* C1: whenever a request of the admin of the organization that owns committee C
\* went through checkCommitteePermission with requirement MEMBER, LEADER or ADMIN,
\* the guard let it through (no 403), whatever roles the admin holds.
C1_AdminPassesGuard ==
    (/\ ThroughGuard
     /\ last.required \in {MEMBER, LEADER, ADMIN}
     /\ AdminOfCommittee(last.user, last.committeeId))
    => Passed

----------------------------------------------------------------------------
(* C2 *)

\* C2: for a caller who administers no organization, the level the guard leaves in
\* req.userPermission, the userPermission GET /committees/:id returns (403 standing
\* for NONE) and every userPermission GET /committees returns equal the maximum of
\* the levels of the rows (role of the caller, committee), NONE when there is none.
C2_EffectivePermissionIsMax ==
    (last.user \in Users /\ NonAdmin(last.user)) =>
        /\ (ThroughGuard /\ last.committeeId # NoId)
               => last.userPermission = MaxLevel(last.user, last.committeeId)
        /\ (last.op = "getCommittee" /\ last.committeeId \in DOMAIN committees)
               => IF MaxLevel(last.user, last.committeeId) = NONE
                  THEN last.code = 403
                  ELSE /\ last.code = 200
                       /\ last.userPermission = MaxLevel(last.user, last.committeeId)
        /\ last.op = "getCommittees"
               => \A cp \in last.committees : cp[2] = MaxLevel(last.user, cp[1])

\* a caller without organization, MEMBER through one role and LEADER through
\* another on the same committee, was reported LEADER by GET /committees/:id
C2_Witness ==
    /\ last.op = "getCommittee"
    /\ NonAdmin(last.user)
    /\ GrantedLevels(last.user, last.committeeId) = {MEMBER, LEADER}
    /\ last.userPermission = LEADER

----------------------------------------------------------------------------
(* C4 *)

\* C4: for a caller who administers no organization, a committee id and a requirement
\* NONE, MEMBER or LEADER, checkCommitteePermission lets the request through exactly
\* when the caller's maximum level on the committee is at least the requirement, and
\* answers 403 otherwise.
C4_GuardComparesLevels ==
    (/\ ThroughGuard
     /\ last.required \in PermissionLevel
     /\ last.committeeId # NoId
     /\ NonAdmin(last.user))
    => IF Rank(MaxLevel(last.user, last.committeeId)) >= Rank(last.required)
       THEN Passed
       ELSE last.code = 403

\* a caller without roles and without organization got 403 from GET /tasks/committee/:id
C4_Witness ==
    /\ last.op = "getCommitteeTasks"
    /\ NonAdmin(last.user)
    /\ UserRolesOf(last.user) = {}
    /\ last.code = 403

----------------------------------------------------------------------------
(* C3 *)

\* C3: for the admin U of the organization that owns committee C, whatever roles U
\* holds: GET /committees/:id answers 200 with userPermission LEADER, GET /committees
\* lists C with userPermission LEADER, and GET, PUT and DELETE /tasks/:id, PATCH
\* /tasks/:id/status and POST /tasks/:id/comments on a task of C, with a body the
\* schema accepts, are granted.
C3_AdminIsLeader ==
    /\ (last.op = "getCommittee" /\ AdminOfCommittee(last.user, last.committeeId))
           => (last.code = 200 /\ last.userPermission = LEADER)
    /\ last.op = "getCommittees"
           => \A c \in DOMAIN committees :
                  AdminOfCommittee(last.user, c) => <<c, LEADER>> \in last.committees
    /\ (/\ last.op \in {"getTask", "updateTask", "deleteTask", "updateTaskStatus", "addComment"}
        /\ AdminOfCommittee(last.user, last.committeeId)
        /\ ~Malformed(last))
           => Granted(last)

\* the admin of the owning organization, holding no role, has edited a task
C3_Witness ==
    /\ last.op = "updateTask"
    /\ AdminOfCommittee(last.user, last.committeeId)
    /\ UserRolesOf(last.user) = {}
    /\ last.code = 200
    /\ last.taskId \in DOMAIN tasks /\ tasks[last.taskId].title = "b"

----------------------------------------------------------------------------
(* C5 *)

\* C5: a step of POST /tasks for committee C adds a task only when the caller's
\* effective permission on C is LEADER; when the caller's effective permission on C is
\* MEMBER or NONE the answer is 403 and tasks and assignments are left as they were.
C5_CreateOnlyByLeader ==
    [][last'.op = "createTask" =>
          /\ tasks' # tasks => Effective(last'.user, last'.committeeId) = LEADER
          /\ (/\ last'.committeeId # NoId
              /\ Effective(last'.user, last'.committeeId) \in {NONE, MEMBER})
                 => /\ last'.code = 403
                    /\ tasks' = tasks
                    /\ assignments' = assignments]_vars

\* a caller with MEMBER as highest level on the committee was answered 403
C5_Witness ==
    /\ last.op = "createTask"
    /\ Effective(last.user, last.committeeId) = MEMBER
    /\ last.code = 403

----------------------------------------------------------------------------
(* C6 *)

\* C6: a step of PATCH /tasks/:id/status or POST /tasks/:id/comments on an existing
\* task T of committee C, with a body the schema accepts, is granted exactly when the
\* caller's effective permission on C is at least MEMBER; otherwise the answer is
\* 403 and neither the tasks nor the comments change. A granted comment adds
\* exactly one comment, on T, with the caller as author.
C6_MemberGate ==
    [][(/\ last'.op \in {"updateTaskStatus", "addComment"}
        /\ last'.taskId \in DOMAIN tasks
        /\ ~Malformed(last')) =>
          IF Rank(Effective(last'.user, tasks[last'.taskId].committeeId)) >= Rank(MEMBER)
          THEN /\ Granted(last')
               /\ last'.op = "addComment" =>
                      \E c \in comments' \ comments :
                          /\ comments' = comments \cup {c}
                          /\ c.taskId = last'.taskId
                          /\ c.userId = last'.user
          ELSE /\ last'.code = 403
               /\ tasks' = tasks
               /\ comments' = comments]_vars

\* a caller who is MEMBER through a role, and not the admin, has commented a task
C6_Witness ==
    /\ last.op = "addComment"
    /\ last.code = 201
    /\ ~AdminOfCommittee(last.user, last.committeeId)
    /\ MaxLevel(last.user, last.committeeId) = MEMBER
    /\ \E c \in comments : c.taskId = last.taskId /\ c.userId = last.user

----------------------------------------------------------------------------
(* C7 *)

\* C7: a step of PUT /tasks/:id (with a body the schema accepts) or DELETE /tasks/:id
\* on an existing task T of committee C is granted exactly when the caller's effective
\* permission on C is LEADER; otherwise (MEMBER included) the answer is 403 and the
\* tasks, the assignments and the comments are left as they were. A caller who is
\* LEADER on C through a role is granted PATCH /tasks/:id/status as well.
C7_LeaderGate ==
    [][/\ (/\ last'.op \in {"updateTask", "deleteTask"}
           /\ last'.taskId \in DOMAIN tasks
           /\ ~Malformed(last')) =>
             IF Effective(last'.user, tasks[last'.taskId].committeeId) = LEADER
             THEN Granted(last')
             ELSE /\ last'.code = 403
                  /\ tasks' = tasks
                  /\ assignments' = assignments
                  /\ comments' = comments
       /\ (/\ last'.op = "updateTaskStatus"
           /\ last'.taskId \in DOMAIN tasks
           /\ ~Malformed(last')
           /\ MaxLevel(last'.user, tasks[last'.taskId].committeeId) = LEADER)
             => Granted(last')]_vars

\* a caller whose only role has LEADER on the committee, not the admin, has
\* deleted a task of it
C7_Witness ==
    /\ last.op = "deleteTask"
    /\ last.code = 200
    /\ last.taskId \notin DOMAIN tasks
    /\ ~AdminOfCommittee(last.user, last.committeeId)
    /\ Cardinality(UserRolesOf(last.user)) = 1
    /\ MaxLevel(last.user, last.committeeId) = LEADER

----------------------------------------------------------------------------
(* C8 *)

\* the routes of organization-level administration
AdminOps ==
    {"createRole", "updateRole", "deleteRole", "assignRole", "removeRole",
     "setPermissions", "createCommittee", "updateCommittee", "deleteCommittee",
     "listUsers", "deactivateUser", "activateUser", "updateOrganization"}

\* C8: a step of a route of organization-level administration (create, update,
\* delete role; assign, remove role; set permissions; create, update, delete
\* committee; list users; activate, deactivate user; update organization) whose
\* caller administers no organization is answered 403 and leaves the store as it
\* was, whatever roles the caller holds.
C8_AdminOnly ==
    [][(last'.op \in AdminOps /\ NonAdmin(last'.user))
          => (last'.code = 403 /\ store' = store)]_vars

\* a caller without organization who is LEADER on every committee was answered 403
C8_Witness ==
    /\ last.op \in AdminOps
    /\ NonAdmin(last.user)
    /\ DOMAIN committees # {}
    /\ \A c \in DOMAIN committees : MaxLevel(last.user, c) = LEADER
    /\ last.code = 403

----------------------------------------------------------------------------
(* C9 *)

\* C9: a step of POST /organizations with a body the schema accepts, by a caller who
\* administers an organization, is answered 400 'Organization already exists for this
\* user' and leaves the organizations as they were; by a caller who administers none,
\* it is answered 201 and adds exactly one organization, with the caller as adminUserId.
C9_OneOrganizationPerAdmin ==
    [][(last'.op = "createOrganization" /\ last'.error # ValidationError) =>
          IF ~NonAdmin(last'.user)
          THEN /\ last'.code = 400
               /\ last'.error = OrganizationExists
               /\ organizations' = organizations
          ELSE /\ last'.code = 201
               /\ Cardinality(DOMAIN organizations' \ DOMAIN organizations) = 1
               /\ \A o \in DOMAIN organizations' \ DOMAIN organizations :
                      organizations'[o].adminUserId = last'.user
               /\ \A o \in DOMAIN organizations :
                      o \in DOMAIN organizations' /\ organizations'[o] = organizations[o]]_vars

\* the admin of an organization asked for another one and was answered 400
C9_Witness ==
    /\ last.op = "createOrganization"
    /\ last.code = 400
    /\ last.error = OrganizationExists
    /\ Cardinality(OrganizationsOfAdmin(last.user)) = 1

----------------------------------------------------------------------------
(* C10 *)

\* the committees a permissions list names with one of the levels
ListedWith(list, levels) ==
    {list[i].committeeId : i \in {j \in DOMAIN list : list[j].permissionLevel \in levels}}

\* the rows of the role are one per committee the list names with MEMBER or LEADER,
\* and none for a committee it names with NONE or does not name
RowsAsListed(roleId, list) ==
    LET rows == {q \in permissions : q.roleId = roleId}
    IN  /\ \A c \in ListedWith(list, {MEMBER, LEADER}) :
               Cardinality({q \in rows : q.committeeId = c}) = 1
        /\ \A q \in rows :
               /\ q.committeeId \in ListedWith(list, {MEMBER, LEADER})
               /\ q.committeeId \notin ListedWith(list, {NONE})

\* the list names an existing role, existing committees, and no committee twice
WellFormed(roleId, list) ==
    /\ roleId \in DOMAIN roles
    /\ \A i \in DOMAIN list : list[i].committeeId \in DOMAIN committees
    /\ \A i, j \in DOMAIN list : (i # j) => (list[i].committeeId # list[j].committeeId)

\* the last request was a POST /roles/permissions that reached the handler's writes
Applied == last.op = "setPermissions" /\ last.code \in {200, 500}

\* applying the last request once more leaves the permission rows as they are
Reapplied == PermissionsAfter(last.roleId, last.permissions).permissions = permissions
LastRowsAsListed == RowsAsListed(last.roleId, last.permissions)
LastWellFormed == WellFormed(last.roleId, last.permissions)

\* C10 as stated: after a step of POST /roles/permissions, for every list, applying
\* it again changes nothing, the rows of the role are exactly one per committee
\* listed with MEMBER or LEADER and none for the committees listed with NONE or not
\* listed, and the rows of the other roles are untouched.
C10_Original ==
    [][Applied' =>
          /\ Reapplied'
          /\ LastRowsAsListed'
          /\ {q \in permissions' : q.roleId # last'.roleId}
                 = {q \in permissions : q.roleId # last'.roleId}]_vars

\* C10: after a step of POST /roles/permissions, for every list, applying it again
\* changes nothing and the rows of the other roles are untouched; when the list names
\* an existing role, only existing committees and no committee twice, the answer is
\* 200 and the rows of the role are exactly one per committee listed with MEMBER or
\* LEADER, with the listed level, and none for the committees listed with NONE or not
\* listed.
C10_Idempotent ==
    [][Applied' =>
          /\ Reapplied'
          /\ {q \in permissions' : q.roleId # last'.roleId}
                 = {q \in permissions : q.roleId # last'.roleId}
          /\ LastWellFormed' =>
                 /\ last'.code = 200
                 /\ LastRowsAsListed'
                 /\ \A i \in DOMAIN last'.permissions :
                        last'.permissions[i].permissionLevel # NONE =>
                            [roleId |-> last'.roleId,
                             committeeId |-> last'.permissions[i].committeeId,
                             permissionLevel |-> last'.permissions[i].permissionLevel]
                                \in permissions']_vars

\* a list naming one committee with NONE and another with LEADER was applied to a
\* role while the other role has rows: the role has the one row, and applying the
\* list again would leave the rows as they are
C10_Witness ==
    /\ Applied
    /\ last.code = 200
    /\ LastWellFormed
    /\ ListedWith(last.permissions, {NONE}) # {}
    /\ ListedWith(last.permissions, {LEADER}) # {}
    /\ Cardinality({q \in permissions : q.roleId = last.roleId}) = 1
    /\ \E q \in permissions : q.roleId # last.roleId
    /\ Reapplied

----------------------------------------------------------------------------
(* C11 *)

\* C11: in every state reached by creating and deleting roles, committees, permission
\* rows, role assignments, tasks, task assignments and comments there is no orphan
\* row: every permission row is of an existing role and an existing committee, every
\* user-role row of an existing role (and user), every task of an existing committee,
\* every task assignment and every comment of an existing task. So the rows of a
\* deleted committee, role or task are gone with it.
C11_NoOrphans ==
    /\ \A q \in permissions : q.roleId \in DOMAIN roles /\ q.committeeId \in DOMAIN committees
    /\ \A ur \in userRoles : ur.roleId \in DOMAIN roles /\ ur.userId \in DOMAIN users
    /\ \A r \in DOMAIN roles : roles[r].organizationId \in DOMAIN organizations
    /\ \A c \in DOMAIN committees : committees[c].organizationId \in DOMAIN organizations
    /\ \A t \in DOMAIN tasks : tasks[t].committeeId \in DOMAIN committees
    /\ \A a \in assignments : a.taskId \in DOMAIN tasks
    /\ \A c \in comments : c.taskId \in DOMAIN tasks

\* a committee was deleted after a task and a comment had been created, while a role
\* is assigned: no task, comment or permission row is left
C11_Witness ==
    /\ last.op = "deleteCommittee" /\ last.code = 200
    /\ nextId.task > 1 /\ nextId.comment > 1
    /\ userRoles # {}
    /\ tasks = <<>> /\ comments = {} /\ assignments = {} /\ permissions = {}

----------------------------------------------------------------------------
(* C12 *)

\* the committee ids that were given out and are no longer in the store
DeletedCommittees == (1..(nextId.committee - 1)) \ DOMAIN committees

\* C12: once a committee is deleted, GET /tasks/committee/:id for its id by an
\* authenticated caller is answered 404, or 200 with nothing found, and no
\* permission row of any role is for that committee.
C12_DeletedCommitteeNotFound ==
    /\ (/\ last.op = "getCommitteeTasks"
        /\ last.user \in Users
        /\ last.committeeId \in DeletedCommittees)
           => \/ last.code = 404
              \/ last.code = 200 /\ last.tasks = <<>>
    /\ \A q \in permissions : q.committeeId \notin DeletedCommittees

----------------------------------------------------------------------------
(* C13 *)

\* the decision the store, as it is when the request starts, gives for the answer
\* of a task request of an authenticated caller: the inline checks grant the admin of
\* the owning organization and the rows of the caller's roles, the guard the rows only
DecidedFromStore(response) ==
    LET u == response.user
    IN  /\ (/\ response.op \in {"getTask", "updateTaskStatus", "addComment"}
            /\ response.taskId \in DOMAIN tasks
            /\ ~Malformed(response))
               => (Granted(response)
                       <=> Rank(Effective(u, tasks[response.taskId].committeeId)) >= Rank(MEMBER))
        /\ (/\ response.op \in {"updateTask", "deleteTask"}
            /\ response.taskId \in DOMAIN tasks
            /\ ~Malformed(response))
               => (Granted(response)
                       <=> Effective(u, tasks[response.taskId].committeeId) = LEADER)
        /\ (response.op \in {"getCommitteeTasks", "createTask"} /\ u \in Users)
               => (response.code # 403
                       <=> Rank(MaxLevel(u, response.committeeId)) >= Rank(response.required))
        /\ (response.op \in {"getTask", "updateTaskStatus", "addComment", "updateTask",
                             "deleteTask", "getCommitteeTasks", "createTask"}
            /\ u \in Users)
               => (Granted(response) \/ response.code \in {400, 403, 404, 500})

\* C13: a request that changes role or permission data has changed the store when it
\* is answered - the removed user-role row is gone, the deleted role and its rows are
\* gone, the assigned row is there, the permission rows of the role are those of the
\* list - and every task request is decided from the store as it is when the request
\* starts: so a user whose only granting role was removed gets 403 on the next task
\* request and a user just given a LEADER role is granted on the next one.
C13_NoStaleness ==
    [][/\ DecidedFromStore(last')
       /\ (last'.op = "removeRole" /\ Granted(last'))
             => \A u \in Users :
                   RemoveRole(last'.user, u, last'.roleId)
                       => [userId |-> u, roleId |-> last'.roleId] \notin userRoles'
       /\ (last'.op = "assignRole" /\ Granted(last'))
             => \E ur \in userRoles' : ur.roleId = last'.roleId
       /\ (last'.op = "deleteRole" /\ Granted(last'))
             => /\ last'.roleId \notin DOMAIN roles'
                /\ \A ur \in userRoles' : ur.roleId # last'.roleId
                /\ \A q \in permissions' : q.roleId # last'.roleId
       /\ (last'.op = "setPermissions" /\ Granted(last'))
             => {q \in permissions' : q.roleId = last'.roleId}
                    = Range(PermissionsToCreate(last'.roleId, last'.permissions))]_vars

\* u2 created a task, so was LEADER through the role, holds no role any more while
\* the role still exists, and was answered 403 by PATCH /tasks/:id/status
C13_Witness ==
    /\ last.op = "updateTaskStatus" /\ last.code = 403 /\ last.user = "u2"
    /\ last.taskId \in DOMAIN tasks /\ tasks[last.taskId].createdById = "u2"
    /\ UserRolesOf("u2") = {}
    /\ \E q \in permissions : q.permissionLevel = LEADER

----------------------------------------------------------------------------
(* C14 *)

\* the bodies PATCH /tasks/:id/status accepts, in this model
AcceptedStatusBodies == {body \in BoardStatusBodies : body.valid}

\* C14: the status of every task is TODO, IN_PROGRESS or DONE, and PATCH
\* /tasks/:id/status with target status s' of a caller whose effective level on the
\* task's committee is MEMBER or LEADER is answered 200 and leaves the task in s',
\* whatever status s the task is in - s' itself and the columns before s included.
C14_AnyTransition ==
    [][/\ \A t \in DOMAIN tasks : tasks[t].status \in TaskStatus
       /\ \A t \in DOMAIN tasks' : tasks'[t].status \in TaskStatus
       /\ (last'.op = "updateTaskStatus" /\ last'.taskId \in DOMAIN tasks)
             => LET u == last'.user
                    t == last'.taskId
                IN  \A body \in AcceptedStatusBodies :
                       (/\ UpdateTaskStatus(u, t, body)
                        /\ Rank(Effective(u, tasks[t].committeeId)) >= Rank(MEMBER))
                           => /\ last'.code = 200
                              /\ tasks'[t].status = Value(body.status)]_vars

\* tasks 1 and 2 were both created at position 0, so task 1 had left the TODO column
\* when task 2 was created, and no request sets position 0: u3, a MEMBER, has moved
\* task 1 back to TODO
C14_Witness ==
    /\ last.op = "updateTaskStatus" /\ last.code = 200
    /\ last.user = "u3" /\ last.taskId = 1
    /\ Effective("u3", 1) = MEMBER
    /\ DOMAIN tasks = {1, 2}
    /\ tasks[1].status = TODO /\ tasks[1].position = 0
    /\ tasks[2].position = 0

----------------------------------------------------------------------------
(* C15 *)

\* the positions of the TODO column of a committee
TodoPositions(committeeId) ==
    {tasks[t].position :
        t \in {x \in DOMAIN tasks : /\ tasks[x].committeeId = committeeId
                                    /\ tasks[x].status = TODO}}

\* C15: POST /tasks answered 201 has created the task with status TODO at the
\* position after the highest of the committee's TODO column, or at 0 when the column
\* was empty; PATCH /tasks/:id/status to DONE with a position, answered 200, leaves
\* the task DONE at that position; and GET /tasks/committee/:committeeId answered 200
\* returns every task of the committee exactly once, with the status and position it
\* has - so the moved task once, DONE with the new position and not with TODO.
C15_RoundTrip ==
    [][/\ (last'.op = "createTask" /\ last'.code = 201)
             => LET created == tasks'[last'.taskId]
                    todo == TodoPositions(last'.committeeId)
                IN  /\ last'.taskId \notin DOMAIN tasks
                    /\ created.status = TODO
                    /\ created.committeeId = last'.committeeId
                    /\ IF todo = {} THEN created.position = 0
                       ELSE /\ created.position - 1 \in todo
                            /\ \A p \in todo : p <= created.position - 1
       /\ (last'.op = "updateTaskStatus" /\ last'.code = 200)
             => \A body \in AcceptedStatusBodies :
                   (/\ UpdateTaskStatus(last'.user, last'.taskId, body)
                    /\ body.status = Some(DONE) /\ body.position # None)
                       => /\ tasks'[last'.taskId].status = DONE
                          /\ tasks'[last'.taskId].position = Value(body.position)
       /\ (last'.op = "getCommitteeTasks" /\ last'.code = 200)
             => /\ \A t \in DOMAIN tasks :
                      tasks[t].committeeId = last'.committeeId
                          => /\ Cardinality({i \in DOMAIN last'.tasks :
                                                last'.tasks[i].id = t}) = 1
                             /\ \E i \in DOMAIN last'.tasks :
                                   last'.tasks[i] = [id |-> t, status |-> tasks[t].status,
                                                     position |-> tasks[t].position]
                /\ \A i \in DOMAIN last'.tasks :
                      /\ last'.tasks[i].id \in DOMAIN tasks
                      /\ tasks[last'.tasks[i].id].committeeId = last'.committeeId]_vars

\* task 2 was created after task 1 in the TODO column, task 1 was moved to DONE with
\* position 2, and the listing shows both
C15_Witness ==
    /\ last.op = "getCommitteeTasks" /\ last.code = 200
    /\ last.tasks = <<[id |-> 1, status |-> DONE, position |-> 2],
                      [id |-> 2, status |-> TODO, position |-> 1]>>

----------------------------------------------------------------------------
(* C16 *)

\* C16: a request answered 401 or 403, by a guard or by the check of a handler,
\* leaves organizations, roles, permission rows, user-role rows, committees, tasks,
\* assignments, comments and users as they were before the request.
C16_DenialsLeaveStore ==
    [][last'.code \in {401, 403} => store' = store]_vars

\* PUT /tasks/:id of a caller who is not a leader of the committee of an existing
\* task that has assignees was answered 403
C16_Witness ==
    /\ last.op = "updateTask" /\ last.code = 403
    /\ last.taskId \in DOMAIN tasks
    /\ \E a \in assignments : a.taskId = last.taskId

----------------------------------------------------------------------------
(* C17 *)

\* C17: when checkCommitteePermission runs for an authenticated caller with the
\* requirement MEMBER or LEADER and a committee id no committee has, the level it
\* finds is NONE and it answers 403: no 500 and the handler does not run.
C17_UnknownCommitteeDenied ==
    (/\ ThroughGuard
     /\ last.user \in Users
     /\ last.required \in {MEMBER, LEADER}
     /\ last.committeeId # NoId
     /\ last.committeeId \notin DOMAIN committees)
        => /\ last.code = 403
           /\ last.userPermission = NONE

\* a caller who is LEADER of committee 1 through a role was denied on committee 3,
\* which does not exist
C17_Witness ==
    /\ last.op = "guard" /\ last.required = LEADER
    /\ last.committeeId = 3 /\ 3 \notin DOMAIN committees
    /\ last.code = 403
    /\ MaxLevel(last.user, 1) = LEADER

----------------------------------------------------------------------------
(* C18 *)

\* C18: POST /roles and POST /committees of an admin with a name a role, or a
\* committee, of the same organization already has, and PUT /roles/:id and PUT
\* /committees/:id onto such a name, are answered 400 or 409 and leave roles and
\* committees as they were.
C18_DuplicateNameConflict ==
    [][/\ \A u \in Callers, data \in CreateBodiesAdmin :
             /\ (/\ CreateRole(u, data)
                 /\ CheckIsAdmin(u) = 0 /\ data.valid
                 /\ RoleNameTaken(data.organizationId, Value(data.name), NoId))
                    => /\ last'.code \in {400, 409}
                       /\ roles' = roles /\ committees' = committees
             /\ (/\ CreateCommittee(u, data)
                 /\ CheckIsAdmin(u) = 0 /\ data.valid
                 /\ CommitteeNameTaken(data.organizationId, Value(data.name), NoId))
                    => /\ last'.code \in {400, 409}
                       /\ roles' = roles /\ committees' = committees
       /\ \A u \in Callers, data \in RenameBodies :
             /\ \A r \in DOMAIN roles :
                   (/\ UpdateRole(u, r, data)
                    /\ CheckIsAdmin(u) = 0 /\ data.valid
                    /\ RoleNameTaken(roles[r].organizationId, Value(data.name), r))
                       => /\ last'.code \in {400, 409}
                          /\ roles' = roles /\ committees' = committees
             /\ \A c \in DOMAIN committees :
                   (/\ UpdateCommittee(u, c, data)
                    /\ CheckIsAdmin(u) = 0 /\ data.valid
                    /\ CommitteeNameTaken(committees[c].organizationId, Value(data.name), c))
                       => /\ last'.code \in {400, 409}
                          /\ roles' = roles /\ committees' = committees]_vars

----------------------------------------------------------------------------
(* C19 *)

\* the committees of an organization
CommitteesOf(organizationId) ==
    {c \in DOMAIN committees : committees[c].organizationId = organizationId}

\* the organizations of the roles userId holds
RoleOrganizations(userId) ==
    {roles[ur.roleId].organizationId : ur \in UserRolesOf(userId)}

\* C19: GET /committees answers a caller who administers no organization and holds
\* no role with 404; a caller who administers no organization and holds roles with
\* exactly the committees of the organization (of a role of the caller) on which the
\* caller's effective level is MEMBER or LEADER, each with that level as
\* userPermission; and an organization admin with every committee of the
\* organization, each with LEADER.
C19_CommitteeList ==
    (last.op = "getCommittees" /\ last.user \in Users)
        => LET u == last.user
           IN  IF ~NonAdmin(u)
               THEN /\ last.code = 200
                    /\ \E o \in OrganizationsOfAdmin(u) :
                          last.committees = {<<c, LEADER>> : c \in CommitteesOf(o)}
               ELSE IF UserRolesOf(u) = {}
               THEN last.code = 404
               ELSE /\ last.code = 200
                    /\ \E o \in RoleOrganizations(u) :
                          last.committees =
                              {<<c, Effective(u, c)>> :
                                  c \in {x \in CommitteesOf(o) :
                                            Effective(u, x) \in {MEMBER, LEADER}}}

\* a caller who administers nothing was shown committee 1 as MEMBER and not
\* committee 2 of the same organization, on which the caller has no level
C19_Witness ==
    /\ last.op = "getCommittees" /\ last.code = 200
    /\ NonAdmin(last.user)
    /\ last.committees = {<<1, MEMBER>>}
    /\ CommitteesOf(1) = {1, 2}
    /\ Effective(last.user, 2) = NONE

----------------------------------------------------------------------------
(* C20 *)

\* C20: in every state, with POST /organizations requests of the same user in flight
\* between the check and the insert or not, no user is the adminUserId of more than
\* one organization.
C20_OneOrganizationPerAdmin ==
    \A u \in Users : Cardinality(OrganizationsOfAdmin(u)) <= 1

----------------------------------------------------------------------------
(* C21 *)

\* C21: the permission rows hold at most one row for a role and a committee, and
\* the level of every row is MEMBER or LEADER: NONE is never stored.
C21_PermissionRowsWellFormed ==
    /\ \A q \in permissions : q.permissionLevel \in {MEMBER, LEADER}
    /\ \A q1, q2 \in permissions :
          (q1.roleId = q2.roleId /\ q1.committeeId = q2.committeeId) => q1 = q2

\* a list with NONE for committee 1 and LEADER for committee 2 was applied to role 1,
\* which is left with the row of committee 2 only
C21_Witness ==
    /\ last.op = "setPermissions" /\ last.code = 200 /\ last.roleId = 1
    /\ \E i \in DOMAIN last.permissions :
          last.permissions[i] = [committeeId |-> 1, permissionLevel |-> NONE]
    /\ {q \in permissions : q.roleId = 1}
           = {[roleId |-> 1, committeeId |-> 2, permissionLevel |-> LEADER]}

----------------------------------------------------------------------------
(* C22 *)

\* C22: PATCH /tasks/:id/status answered 200 leaves the task with the status of the
\* body and with the position of the body, or with the position it had when the body
\* has none; its title, committee and creator, every other task, the assignments and
\* the comments are as they were before the request.
C22_MoveChangesOneTask ==
    [][(last'.op = "updateTaskStatus" /\ last'.code = 200)
          => LET t == last'.taskId
             IN  /\ \A body \in {b \in MoveBodies : b.valid} :
                       UpdateTaskStatus(last'.user, t, body)
                           => /\ tasks'[t].status = Value(body.status)
                              /\ tasks'[t].position = IF body.position = None
                                                      THEN tasks[t].position
                                                      ELSE Value(body.position)
                 /\ DOMAIN tasks' = DOMAIN tasks
                 /\ tasks'[t].title = tasks[t].title
                 /\ tasks'[t].committeeId = tasks[t].committeeId
                 /\ tasks'[t].createdById = tasks[t].createdById
                 /\ \A other \in DOMAIN tasks \ {t} : tasks'[other] = tasks[other]
                 /\ assignments' = assignments
                 /\ comments' = comments]_vars

\* task 1 was moved to DONE at the position task 2 has in that column; task 2 kept
\* it, and task 1 kept its assignee and its comment
C22_Witness ==
    /\ last.op = "updateTaskStatus" /\ last.code = 200 /\ last.taskId = 1
    /\ tasks[1].status = DONE /\ tasks[2].status = DONE
    /\ tasks[1].position = tasks[2].position
    /\ \E a \in assignments : a.taskId = 1
    /\ \E c \in comments : c.taskId = 1

----------------------------------------------------------------------------
(* C23 *)

\* every connection has a request, and every request is answered
AllAnswered ==
    \A connection \in DOMAIN inflight :
        /\ inflight[connection] # Idle
        /\ inflight[connection].pc = "answered"

\* the users a task is assigned to
AssigneesOf(taskId) == {a.userId : a \in {x \in assignments : x.taskId = taskId}}

\* C23: once the PUT /tasks/:id requests of leaders on one task, each with
\* assigneeIds, that ran on the connections at once are all answered, none was
\* answered with an error, and the task has the fields and exactly the assignees of
\* one of them.
C23_LastWriterWins ==
    AllAnswered
        => /\ \A connection \in DOMAIN inflight : inflight[connection].code = 200
           /\ \E connection \in DOMAIN inflight :
                 LET request == inflight[connection]
                 IN  /\ tasks[request.id].title = Value(request.data.title)
                     /\ AssigneesOf(request.id) = Range(Value(request.data.assigneeIds))

----------------------------------------------------------------------------
(* C24 *)

\* the levels userId has on the committee through rows that link a role of one
\* organization to a committee of another
CrossOrganizationLevels(userId, committeeId) ==
    {q.permissionLevel :
        q \in {x \in permissions :
                  /\ x.committeeId = committeeId
                  /\ roles[x.roleId].organizationId
                         # committees[x.committeeId].organizationId
                  /\ \E ur \in UserRolesOf(userId) : ur.roleId = x.roleId}}

\* C24: POST /roles/permissions of an admin with a list that names an existing role,
\* existing committees and no committee twice is answered 200 and leaves the rows
\* listed, whatever the organizations of the role and of the committees; and a user
\* who holds a role with such a row to a committee of another organization passes
\* the guard with that level and is granted the task requests that ask for it.
C24_CrossOrganizationRows ==
    [][/\ (/\ last'.op = "setPermissions"
           /\ CheckIsAdmin(last'.user) = 0
           /\ last'.error # ValidationError
           /\ LastWellFormed')
              => /\ last'.code = 200
                 /\ LastRowsAsListed'
       /\ (/\ last'.op \in {"getCommitteeTasks", "createTask"}
           /\ last'.committeeId \in DOMAIN committees)
              => LET levels == CrossOrganizationLevels(last'.user, last'.committeeId)
                 IN  (LEADER \in levels \/ (MEMBER \in levels /\ last'.required = MEMBER))
                         => last'.code # 403
       /\ (/\ last'.op \in {"getTask", "updateTaskStatus", "deleteTask"}
           /\ last'.taskId \in DOMAIN tasks
           /\ ~Malformed(last'))
              => LET levels == CrossOrganizationLevels(last'.user,
                                                       tasks[last'.taskId].committeeId)
                 IN  (LEADER \in levels \/ (MEMBER \in levels /\ last'.op # "deleteTask"))
                         => Granted(last')]_vars

\* u3, who administers nothing and holds only role 1 of organization 1, has created
\* a task in committee 2 of organization 2
C24_Witness ==
    /\ last.op = "createTask" /\ last.code = 201 /\ last.user = "u3"
    /\ NonAdmin("u3")
    /\ \A ur \in UserRolesOf("u3") : roles[ur.roleId].organizationId = 1
    /\ committees[last.committeeId].organizationId = 2
    /\ \E q \in permissions :
          /\ q.committeeId = last.committeeId
          /\ roles[q.roleId].organizationId # committees[q.committeeId].organizationId

----------------------------------------------------------------------------
(* C25 *)

\* the decisions of the places that code the permission logic, for a user, an
\* existing committee, a task of the committee and a level
GuardAllows(userId, committeeId, level) ==
    CheckCommitteePermission(level, userId, committeeId).code = 0
HandlersAllow(userId, committeeId, level) ==
    LET task == [committeeId |-> committeeId]
    IN  IF level = MEMBER
        THEN {HasAccessGetTask(userId, task), HasAccessStatus(userId, task),
              HasAccessComment(userId, task)}
        ELSE {IsLeaderUpdate(userId, task), IsLeaderDelete(userId, task)}
CommitteeRouteAllows(userId, committeeId, level) ==
    Rank(CommitteeUserPermission(userId, committeeId)) >= Rank(level)

\* C25: for every user, existing committee and level MEMBER or LEADER, the guard
\* checkCommitteePermission, the inline checks of the task handlers for a task of the
\* committee, and the userPermission GET /committees/:id computes all give the same
\* allow or deny decision.
C25_SameDecisionEverywhere ==
    \A u \in Users, c \in DOMAIN committees, level \in {MEMBER, LEADER} :
        /\ HandlersAllow(u, c, level) = {GuardAllows(u, c, level)}
        /\ CommitteeRouteAllows(u, c, level) = GuardAllows(u, c, level)

----------------------------------------------------------------------------
(* C26 *)

\* the data of an organization: its row, its roles and committees, and the
\* permission and user-role rows of its roles
OrganizationData(o, orgs, rls, cms, perms, urs) ==
    LET ownRoles == {r \in DOMAIN rls : rls[r].organizationId = o}
        ownCommittees == {c \in DOMAIN cms : cms[c].organizationId = o}
    IN  <<IF o \in DOMAIN orgs THEN {orgs[o]} ELSE {},
          {<<r, rls[r]>> : r \in ownRoles},
          {<<c, cms[c]>> : c \in ownCommittees},
          {q \in perms : q.roleId \in ownRoles \/ q.committeeId \in ownCommittees},
          {ur \in urs : ur.roleId \in ownRoles}>>

\* C26: a request of organization-level administration of a user leaves the data of
\* every organization the user does not administer as it was, and such a request on
\* a role or committee of an organization the user does not administer is denied.
C26_TenantIsolation ==
    [][(last'.op \in AdminOps /\ last'.user \in Users)
          => /\ \A o \in DOMAIN organizations :
                   ~IsAdminOf(last'.user, o)
                       => OrganizationData(o, organizations', roles', committees',
                                           permissions', userRoles')
                              = OrganizationData(o, organizations, roles, committees,
                                                 permissions, userRoles)
             /\ (/\ last'.op \in {"updateRole", "deleteRole", "setPermissions", "assignRole"}
                 /\ last'.roleId \in DOMAIN roles
                 /\ ~IsAdminOf(last'.user, roles[last'.roleId].organizationId))
                    => ~Granted(last')
             /\ (/\ last'.op \in {"updateCommittee", "deleteCommittee"}
                 /\ last'.committeeId \in DOMAIN committees
                 /\ ~IsAdminOf(last'.user, committees[last'.committeeId].organizationId))
                    => ~Granted(last')]_vars

----------------------------------------------------------------------------
(* C27 *)

\* C27: when POST /roles/permissions is answered 500 the permission rows of the role
\* are those it had before the request, and when PUT /tasks/:id is answered 500 the
\* task and its assignments are those it had before the request.
C27_FailedWriteLeavesData ==
    [][/\ (last'.op = "setPermissions" /\ last'.code = 500)
             => {q \in permissions' : q.roleId = last'.roleId}
                    = {q \in permissions : q.roleId = last'.roleId}
       /\ (last'.op = "updateTask" /\ last'.code = 500 /\ last'.taskId \in DOMAIN tasks)
             => /\ tasks'[last'.taskId] = tasks[last'.taskId]
                /\ {a \in assignments' : a.taskId = last'.taskId}
                       = {a \in assignments : a.taskId = last'.taskId}]_vars

----------------------------------------------------------------------------
(* C28 *)

\* C28: whenever prisma.task.update of a PUT /tasks/:id is applied to a task, the
\* user of the request passes the leader check of the handler in the store the update
\* is applied to, whatever role removal, role deletion or set-permissions request ran
\* since the handler made its check.
C28_AuthorizedAtTheWrite ==
    [][\A connection \in 1..MaxInFlight :
          (At(connection, "updateTask", "update") /\ WriteUpdateTask(connection)
               /\ inflight[connection].id \in DOMAIN tasks)
              => IsLeaderUpdate(inflight[connection].userId,
                                tasks[inflight[connection].id])]_vars

----------------------------------------------------------------------------
(* C29 *)

\* the connection holds an answered POST /roles/permissions that passed the guard
GrantAnswered(connection) ==
    /\ At(connection, "setPermissions", "answered")
    /\ inflight[connection].code \in {200, 500}

\* C29: when two POST /roles/permissions for one role have both been answered, both
\* were answered 200 and the permission rows of the role are the non-NONE entries of
\* the list of one of the two.
C29_OneOfTheTwoLists ==
    \A c1, c2 \in 1..MaxInFlight :
        (c1 # c2 /\ GrantAnswered(c1) /\ GrantAnswered(c2)
              /\ inflight[c1].id = inflight[c2].id)
            => /\ inflight[c1].code = 200
               /\ inflight[c2].code = 200
               /\ \E c \in {c1, c2} :
                     {q \in permissions : q.roleId = inflight[c].id}
                         = Range(PermissionsToCreate(inflight[c].id, inflight[c].data))

----------------------------------------------------------------------------
(* C30 *)

\* the routes that take the id of a task or of a committee
ById == {"getTask", "updateTask", "updateTaskStatus", "deleteTask", "addComment",
         "getCommittee"}

\* C30: a user who holds no role and administers no organization is answered 403 by
\* GET, PUT and DELETE /tasks/:id, PATCH /tasks/:id/status, POST /tasks/:id/comments
\* and GET /committees/:id, whether the id is the id of a row or not.
C30_DenialHidesExistence ==
    (last.op \in ById /\ last.user \in Users /\ NonAdmin(last.user)
          /\ UserRolesOf(last.user) = {})
        => last.code = 403

====
